---- MODULE Spec2Model ----
(***************************************************************************)
(* The timetable synthesis engine (AITimetableService): generateTimetable, *)
(* the genetic algorithm that drives it, and the fitness evaluator.        *)
(*                                                                         *)
(* Numbers.  Fitness is a real number in the source.  It is kept here in   *)
(* units of 1/600, so that 1.0 = 600, 0.3 = 180, 0.4 = 240, 0.2 = 120,     *)
(* 0.1 = 60 and the workload penalty 0.1 * (overage in hours) is exactly   *)
(* the overage in minutes.  Arithmetic is exact; the rounding of IEEE      *)
(* doubles is not modelled.  A time "HH:mm" is the pair <<HH, mm>>, and    *)
(* moment() turns it into minutes since midnight.  Workloads are kept in   *)
(* minutes, maxWorkload in hours as the source stores it.                  *)
(***************************************************************************)
EXTENDS Integers, Sequences, FiniteSets, TLC

VARIABLES
    db,                 \* what the data collaborator answers to the five fetches
    conflictThreshold,  \* this.conflictThreshold, read once at construction
    pc,                 \* position of the one generateTimetable call
    fetchCalls,         \* number of calls issued to each of the five fetches
    snapshot,           \* the five collections once fetched
    caught,             \* the error the catch block holds (<<>> if none)
    population,         \* geneticAlgorithm: the current population
    generation,         \* geneticAlgorithm: the loop counter
    stats,              \* observer: what the run did (counts, fitness seen)
    timetable,          \* the artifact formatTimetable produced (<<>> if none)
    outcome,            \* what generateTimetable returned or rejected with
    logCalls,           \* the calls of logAIOperation, in order
    aiLog,              \* the records aiLog.create received, in order
    evalIn,             \* fitness evaluator alone: the individual handed in
    evalOut             \* fitness evaluator alone: fitness and individual after

vars == <<db, conflictThreshold, pc, fetchCalls, snapshot, caught, population,
          generation, stats, timetable, outcome, logCalls, aiLog, evalIn, evalOut>>

driverVars == <<db, conflictThreshold, pc, fetchCalls, snapshot, caught,
                population, generation, stats, timetable, outcome, logCalls, aiLog>>

-----------------------------------------------------------------------------
(* Bounds of the model *)

\* const populationSize = 50 in the source; the model runs the same loop on a
\* smaller population (the smallest for which eliteCount is not 0).
populationSize == 5

\* const generations = 100 in the source; the model runs the same loop for fewer.
generations == 2

\* The fitness evaluator alone is tried on individuals of at most this many genes.
MaxGenes == 3

-----------------------------------------------------------------------------
(* Program constants *)

BaseFitness == 600          \* let fitness = 1.0
TeacherPenalty == 180       \* fitness -= 0.3
RoomPenalty == 240          \* fitness -= 0.4
ExistingPenalty == 120      \* fitness -= 0.2
CapacityPenalty == 60       \* fitness -= 0.1
WorkloadPenaltyPerMinute == 1   \* fitness -= 0.1 * (hours over), per minute
DefaultThreshold == 480     \* parseFloat(AI_CONFLICT_THRESHOLD) || 0.8
tournamentSize == 3

days == <<1, 2, 3, 4, 5>>

timeSlots ==
    << [start |-> <<9, 0>>,   end |-> <<10, 30>>],
       [start |-> <<10, 45>>, end |-> <<12, 15>>],
       [start |-> <<13, 0>>,  end |-> <<14, 30>>],
       [start |-> <<14, 45>>, end |-> <<16, 15>>],
       [start |-> <<16, 30>>, end |-> <<18, 0>>] >>

-----------------------------------------------------------------------------
(* Helpers of the service *)

\* moment(t, 'HH:mm'): the instant of the day, in minutes since midnight.
moment(t) == t[1] * 60 + t[2]

\* A variant that misses two ranges starting at the same minute.
timeOverlapStrictStart(start1, end1, start2, end2) ==
    /\ moment(start1) < moment(start2)
    /\ moment(start2) < moment(end1)

\* A variant that counts ranges that touch as overlapping.
timeOverlapInclusive(start1, end1, start2, end2) ==
    /\ moment(start1) <= moment(end2)
    /\ moment(start2) <= moment(end1)

\* time1Start.isBefore(time2End) && time2Start.isBefore(time1End)
timeOverlap(start1, end1, start2, end2) ==
    /\ moment(start1) < moment(end2)
    /\ moment(start2) < moment(end1)

\* xs.find(x => x.id === id), as the index of the first match, 0 for undefined.
RECURSIVE findFrom(_, _, _)
findFrom(xs, id, k) ==
    IF k > Len(xs) THEN 0
    ELSE IF xs[k].id = id THEN k
    ELSE findFrom(xs, id, k + 1)

find(xs, id) == findFrom(xs, id, 1)

\* The keys of the workloads object in insertion order: every teacher id, once.
RECURSIVE workloadKeys(_, _)
workloadKeys(teachers, k) ==
    IF k > Len(teachers) THEN <<>>
    ELSE IF find(teachers, teachers[k].id) = k
         THEN <<teachers[k].id>> \o workloadKeys(teachers, k + 1)
         ELSE workloadKeys(teachers, k + 1)

\* calculateTeacherWorkloads: a function from the teacher ids to minutes.
RECURSIVE addWorkloads(_, _, _)
addWorkloads(workloads, slots, k) ==
    IF k > Len(slots) THEN workloads
    ELSE LET slot == slots[k]
             duration == moment(slot.endTime) - moment(slot.startTime)
         IN  IF slot.teacherId \in DOMAIN workloads
             THEN addWorkloads(
                    [workloads EXCEPT ![slot.teacherId] = @ + duration],
                    slots, k + 1)
             ELSE addWorkloads(workloads, slots, k + 1)

\* A variant that makes an entry only for the teachers that have a gene.
calculateTeacherWorkloadsLazy(slots, teachers) ==
    addWorkloads([id \in {teachers[k].id : k \in
                              {j \in DOMAIN teachers :
                                 \E i \in DOMAIN slots :
                                    slots[i].teacherId = teachers[j].id}} |-> 0],
                 slots, 1)

calculateTeacherWorkloads(slots, teachers) ==
    addWorkloads([id \in {teachers[k].id : k \in DOMAIN teachers} |-> 0],
                 slots, 1)

-----------------------------------------------------------------------------
(* calculateFitness *)

Max(a, b) == IF a >= b THEN a ELSE b

\* conflicts.push(conflict); fitness -= penalty
push(acc, conflict, penalty) ==
    [conflicts |-> Append(acc.conflicts, conflict),
     fitness   |-> acc.fitness - penalty]

\* A variant whose two penalties slipped a decimal place (0.03 and 0.04).
checkPairSlipped(acc, slot1, slot2) ==
    LET overlap == timeOverlap(slot1.startTime, slot1.endTime,
                               slot2.startTime, slot2.endTime)
        a1 == IF /\ slot1.teacherId = slot2.teacherId
                 /\ slot1.dayOfWeek = slot2.dayOfWeek
                 /\ overlap
              THEN push(acc, [type |-> "TEACHER_CONFLICT", slot1 |-> slot1,
                              slot2 |-> slot2, severity |-> 8],
                        TeacherPenalty \div 10)
              ELSE acc
    IN  IF /\ slot1.roomId = slot2.roomId
           /\ slot1.dayOfWeek = slot2.dayOfWeek
           /\ overlap
        THEN push(a1, [type |-> "ROOM_CONFLICT", slot1 |-> slot1,
                       slot2 |-> slot2, severity |-> 9],
                  RoomPenalty \div 10)
        ELSE a1

\* The body of the inner loop: the teacher test, then the room test.
checkPair(acc, slot1, slot2) ==
    LET overlap == timeOverlap(slot1.startTime, slot1.endTime,
                               slot2.startTime, slot2.endTime)
        a1 == IF /\ slot1.teacherId = slot2.teacherId
                 /\ slot1.dayOfWeek = slot2.dayOfWeek
                 /\ overlap
              THEN push(acc, [type |-> "TEACHER_CONFLICT", slot1 |-> slot1,
                              slot2 |-> slot2, severity |-> 8],
                        TeacherPenalty)
              ELSE acc
    IN  IF /\ slot1.roomId = slot2.roomId
           /\ slot1.dayOfWeek = slot2.dayOfWeek
           /\ overlap
        THEN push(a1, [type |-> "ROOM_CONFLICT", slot1 |-> slot1,
                       slot2 |-> slot2, severity |-> 9],
                  RoomPenalty)
        ELSE a1

\* A variant whose inner loop starts at the first gene.
firstPartnerFromStart(i) == 1

\* The first index of the inner loop: let j = i + 1.
firstPartner(i) == i + 1

\* for (let j = i + 1; j < individual.slots.length; j++)
RECURSIVE pairLoop(_, _, _, _)
pairLoop(acc, slots, i, j) ==
    IF j > Len(slots) THEN acc
    ELSE pairLoop(checkPair(acc, slots[i], slots[j]), slots, i, j + 1)

\* The test of one gene against one committed entry.
checkExisting(acc, slot, existing) ==
    IF /\ slot.teacherId = existing.teacherId
       /\ slot.dayOfWeek = existing.dayOfWeek
       /\ timeOverlap(slot.startTime, slot.endTime,
                      existing.startTime, existing.endTime)
    THEN push(acc, [type |-> "EXISTING_CONFLICT", slot |-> slot,
                    existing |-> existing, severity |-> 7],
              ExistingPenalty)
    ELSE acc

\* for (const existing of existingTimetables)
RECURSIVE existingLoop(_, _, _, _)
existingLoop(acc, slot, existingTimetables, k) ==
    IF k > Len(existingTimetables) THEN acc
    ELSE existingLoop(checkExisting(acc, slot, existingTimetables[k]),
                      slot, existingTimetables, k + 1)

\* for (let i = 0; i < individual.slots.length; i++)
RECURSIVE slotLoop(_, _, _, _)
slotLoop(acc, slots, existingTimetables, i) ==
    IF i > Len(slots) THEN acc
    ELSE slotLoop(
           existingLoop(pairLoop(acc, slots, i, firstPartner(i)),
                        slots[i], existingTimetables, 1),
           slots, existingTimetables, i + 1)

\* The workload test of one entry of teacherWorkloads.
checkWorkload(acc, teacherId, workload, teachers) ==
    LET t == find(teachers, teacherId)
    IN  IF t # 0 /\ workload > teachers[t].maxWorkload * 60
        THEN push(acc, [type |-> "WORKLOAD_EXCEEDED", teacherId |-> teacherId,
                        current |-> workload, max |-> teachers[t].maxWorkload,
                        severity |-> 6],
                  WorkloadPenaltyPerMinute
                    * (workload - teachers[t].maxWorkload * 60))
        ELSE acc

\* for (const [teacherId, workload] of Object.entries(teacherWorkloads))
RECURSIVE workloadLoop(_, _, _, _, _)
workloadLoop(acc, workloads, keys, teachers, k) ==
    IF k > Len(keys) THEN acc
    ELSE workloadLoop(checkWorkload(acc, keys[k], workloads[keys[k]], teachers),
                      workloads, keys, teachers, k + 1)

\* A capacity check that never reports.
checkCapacityNever(acc, slot, courses, rooms) == acc

\* The capacity test of one gene.  A course without maxStudents has 0 here.
checkCapacity(acc, slot, courses, rooms) ==
    LET c == find(courses, slot.courseId)
        r == find(rooms, slot.roomId)
    IN  IF /\ c # 0
           /\ r # 0
           /\ courses[c].maxStudents # 0
           /\ courses[c].maxStudents > rooms[r].capacity
        THEN push(acc, [type |-> "CAPACITY_EXCEEDED", slot |-> slot,
                        course |-> courses[c], room |-> rooms[r],
                        severity |-> 5],
                  CapacityPenalty)
        ELSE acc

\* for (const slot of individual.slots)
RECURSIVE capacityLoop(_, _, _, _, _)
capacityLoop(acc, slots, courses, rooms, k) ==
    IF k > Len(slots) THEN acc
    ELSE capacityLoop(checkCapacity(acc, slots[k], courses, rooms),
                      slots, courses, rooms, k + 1)

\* A variant that returns the accumulated value as it is.
clampNone(fitness) == fitness

\* return Math.max(0, fitness)
clamp(fitness) == Max(0, fitness)

\* A variant that pushes onto the conflicts the individual already carries.
calculateFitnessAccumulating(individual, data) ==
    LET slots == individual.slots
        a1 == slotLoop([conflicts |-> individual.conflicts, fitness |-> BaseFitness],
                       slots, data.existingTimetables, 1)
        a2 == workloadLoop(a1, calculateTeacherWorkloads(slots, data.teachers),
                           workloadKeys(data.teachers, 1), data.teachers, 1)
        a3 == capacityLoop(a2, slots, data.courses, data.rooms, 1)
    IN  [fitness    |-> clamp(a3.fitness),
         individual |-> [individual EXCEPT !.conflicts = a3.conflicts]]

\* calculateFitness(individual, data): the value returned and the individual
\* as the call leaves it (individual.conflicts = conflicts).
calculateFitness(individual, data) ==
    LET slots == individual.slots
        a1 == slotLoop([conflicts |-> <<>>, fitness |-> BaseFitness],
                       slots, data.existingTimetables, 1)
        a2 == workloadLoop(a1, calculateTeacherWorkloads(slots, data.teachers),
                           workloadKeys(data.teachers, 1), data.teachers, 1)
        a3 == capacityLoop(a2, slots, data.courses, data.rooms, 1)
    IN  [fitness    |-> clamp(a3.fitness),
         individual |-> [individual EXCEPT !.conflicts = a3.conflicts]]

-----------------------------------------------------------------------------
(* The records the runs are tried on *)

Student(id) == [id |-> id]
Teacher(id, maxWorkload) == [id |-> id, maxWorkload |-> maxWorkload]
Course(id, teacherId, creditHours, maxStudents) ==
    [id |-> id, teacherId |-> teacherId, creditHours |-> creditHours,
     maxStudents |-> maxStudents]
Room(id, capacity, roomType) ==
    [id |-> id, capacity |-> capacity, roomType |-> roomType]
Existing(teacherId, dayOfWeek, startTime, endTime) ==
    [teacherId |-> teacherId, dayOfWeek |-> dayOfWeek,
     startTime |-> startTime, endTime |-> endTime]

\* The gene generateRandomSlot returns for the drawn day, period and room.
Slot(course, teacher, room, day, timeSlot) ==
    [courseId    |-> course.id,
     teacherId   |-> teacher.id,
     roomId      |-> room.id,
     dayOfWeek   |-> day,
     startTime   |-> timeSlot.start,
     endTime     |-> timeSlot.end,
     creditHours |-> course.creditHours]

\* An individual as initializePopulation and crossover create it.
NewIndividual(slots) == [slots |-> slots, conflicts |-> <<>>, fitness |-> 0]

-----------------------------------------------------------------------------
(* The operators of the genetic algorithm.  Every Math.random() draw is an  *)
(* argument: an index into the array drawn from, or a choice.               *)

\* Math.floor(0.2), the factor populationSize left out: no individual is
\* carried over to the next generation.
eliteCountNone == 2 \div 10

\* An elite of a tenth of the population.
eliteCountTenth == populationSize \div 10

\* Math.floor(populationSize * 0.2)
eliteCount == (populationSize * 2) \div 10

\* A variant whose gene ends with the last period of the day, whatever the
\* period drawn.
generateRandomSlotToEndOfDay(course, teacher, rooms, draw) ==
    Slot(course, teacher, rooms[draw.room], days[draw.day],
         [start |-> timeSlots[draw.timeSlot].start,
          end   |-> timeSlots[Len(timeSlots)].end])

\* generateRandomSlot(course, teacher, rooms) with the three drawn indices.
generateRandomSlot(course, teacher, rooms, draw) ==
    Slot(course, teacher, rooms[draw.room], days[draw.day],
         timeSlots[draw.timeSlot])

\* A variant that keeps a course whose teacher is not found, its gene
\* carrying the teacherId of the course.
RECURSIVE randomSlotsUnchecked(_, _, _, _, _)
randomSlotsUnchecked(courses, teachers, rooms, draws, k) ==
    IF k > Len(courses) THEN <<>>
    ELSE <<generateRandomSlot(courses[k], [id |-> courses[k].teacherId],
                              rooms, draws[k])>>
           \o randomSlotsUnchecked(courses, teachers, rooms, draws, k + 1)

\* The body of initializePopulation's loop over the courses, from course k:
\* a course whose teacher is not found is skipped.  draws[k] is the draw made
\* for course k.
RECURSIVE randomSlots(_, _, _, _, _)
randomSlots(courses, teachers, rooms, draws, k) ==
    IF k > Len(courses) THEN <<>>
    ELSE LET t == find(teachers, courses[k].teacherId)
         IN  IF t = 0
             THEN randomSlots(courses, teachers, rooms, draws, k + 1)
             ELSE <<generateRandomSlot(courses[k], teachers[t], rooms, draws[k])>>
                    \o randomSlots(courses, teachers, rooms, draws, k + 1)

\* One individual of initializePopulation.
randomIndividual(data, draws) ==
    NewIndividual(randomSlots(data.courses, data.teachers, data.rooms, draws, 1))

\* The callback of population.map: the individual with its conflicts set by
\* calculateFitness, spread into a new object with the fitness returned.
evaluated(individual, data) ==
    LET r == calculateFitness(individual, data)
    IN  [r.individual EXCEPT !.fitness = r.fitness]

evaluateAll(pop, data) == [i \in DOMAIN pop |-> evaluated(pop[i], data)]

\* population.sort((a, b) => b.fitness - a.fitness): a stable sort, highest
\* fitness first (insertion of each element after its equals).
RECURSIVE insertSorted(_, _)
insertSorted(sorted, x) ==
    IF sorted = <<>> THEN <<x>>
    ELSE IF Head(sorted).fitness >= x.fitness
         THEN <<Head(sorted)>> \o insertSorted(Tail(sorted), x)
         ELSE <<x>> \o sorted

RECURSIVE sortFrom(_, _, _)
sortFrom(pop, sorted, k) ==
    IF k > Len(pop) THEN sorted
    ELSE sortFrom(pop, insertSorted(sorted, pop[k]), k + 1)

\* A population left in the order of its evaluation.
sortNone(pop) == pop

sortByFitness(pop) == sortFrom(pop, <<>>, 1)

\* A variant of the convergence test with a strict comparison.
convergedStrict(pop, threshold) == pop[1].fitness > threshold

\* if (population[0].fitness >= this.conflictThreshold) break
converged(pop, threshold) == pop[1].fitness >= threshold

\* A variant in which a later individual of equal fitness replaces the best.
RECURSIVE reduceBestLast(_, _, _)
reduceBestLast(tournament, best, k) ==
    IF k > Len(tournament) THEN best
    ELSE reduceBestLast(tournament,
                        IF tournament[k].fitness >= best.fitness
                        THEN tournament[k] ELSE best,
                        k + 1)

\* tournament.reduce((best, current) =>
\*     current.fitness > best.fitness ? current : best)
RECURSIVE reduceBest(_, _, _)
reduceBest(tournament, best, k) ==
    IF k > Len(tournament) THEN best
    ELSE reduceBest(tournament,
                    IF tournament[k].fitness > best.fitness
                    THEN tournament[k] ELSE best,
                    k + 1)

\* tournamentSelection(population) with the drawn indices.
tournamentSelection(pop, draws) ==
    LET tournament == [i \in 1..tournamentSize |-> pop[draws[i]]]
    IN  reduceBest(tournament, tournament[1], 2)

\* crossover(parent1, parent2): coin[i] is Math.random() < 0.5 at index i.
RECURSIVE crossSlots(_, _, _, _)
crossSlots(slots1, slots2, coin, i) ==
    IF i > Max(Len(slots1), Len(slots2)) THEN <<>>
    ELSE (IF i <= Len(slots1) /\ i <= Len(slots2)
          THEN <<IF coin[i] THEN slots1[i] ELSE slots2[i]>>
          ELSE IF i <= Len(slots1) THEN <<slots1[i]>>
          ELSE <<slots2[i]>>)
         \o crossSlots(slots1, slots2, coin, i + 1)

\* A crossover that stops after the first gene.
crossoverFirstGene(parent1, parent2, coin) ==
    NewIndividual(SubSeq(crossSlots(parent1.slots, parent2.slots, coin, 1), 1, 1))

\* A crossover that stops where the shorter parent ends.
crossoverCommon(parent1, parent2, coin) ==
    NewIndividual(SubSeq(crossSlots(parent1.slots, parent2.slots, coin, 1), 1,
                         IF Len(parent1.slots) < Len(parent2.slots)
                         THEN Len(parent1.slots) ELSE Len(parent2.slots)))

crossover(parent1, parent2, coin) ==
    NewIndividual(crossSlots(parent1.slots, parent2.slots, coin, 1))

\* JSON.parse(JSON.stringify(individual)): a fresh object with the same
\* slots, conflicts and fitness, rebuilt field by field (every field of a
\* gene is a string or a number, which the round trip keeps).
jsonClone(individual) ==
    [slots     |-> [i \in DOMAIN individual.slots |->
                      [f \in DOMAIN individual.slots[i] |-> individual.slots[i][f]]],
     conflicts |-> individual.conflicts,
     fitness   |-> individual.fitness]

\* The body of mutate's loop from gene i.  hit[i] is Math.random() < 0.1 at
\* gene i and draws[i] the draw for its new slot.  The result is the slots and
\* whether the lookup faulted (course.teacherId of an undefined course).
RECURSIVE mutateSlots(_, _, _, _, _)
mutateSlots(slots, data, hit, draws, i) ==
    IF i > Len(slots) THEN [fault |-> FALSE, slots |-> slots]
    ELSE IF ~hit[i] THEN mutateSlots(slots, data, hit, draws, i + 1)
    ELSE LET c == find(data.courses, slots[i].courseId)
         IN  IF c = 0 THEN [fault |-> TRUE, slots |-> slots]
             ELSE LET t == find(data.teachers, data.courses[c].teacherId)
                  IN  IF t = 0
                      THEN mutateSlots(slots, data, hit, draws, i + 1)
                      ELSE mutateSlots(
                             [slots EXCEPT ![i] =
                                generateRandomSlot(data.courses[c],
                                                   data.teachers[t],
                                                   data.rooms, draws[i])],
                             data, hit, draws, i + 1)

\* mutate(individual, data): [fault, individual].
mutate(individual, data, hit, draws) ==
    LET mutated == jsonClone(individual)
        r == mutateSlots(mutated.slots, data, hit, draws, 1)
    IN  [fault |-> r.fault, individual |-> [mutated EXCEPT !.slots = r.slots]]

-----------------------------------------------------------------------------
(* mutate on objects and references.  objects is the heap of gene objects   *)
(* (an address is an index), a slots array is a sequence of addresses.  The *)
(* child of a crossover holds the addresses of its parents' genes.          *)

\* The loop of mutate from gene i on the array it writes to.
RECURSIVE mutateRefsFrom(_, _, _, _, _, _)
mutateRefsFrom(objects, array, data, hit, draws, i) ==
    IF i > Len(array) THEN [fault |-> FALSE, objects |-> objects, array |-> array]
    ELSE IF ~hit[i] THEN mutateRefsFrom(objects, array, data, hit, draws, i + 1)
    ELSE LET c == find(data.courses, objects[array[i]].courseId)
         IN  IF c = 0 THEN [fault |-> TRUE, objects |-> objects, array |-> array]
             ELSE LET t == find(data.teachers, data.courses[c].teacherId)
                  IN  IF t = 0
                      THEN mutateRefsFrom(objects, array, data, hit, draws, i + 1)
                      ELSE mutateRefsFrom(
                             Append(objects,
                                    generateRandomSlot(data.courses[c],
                                                       data.teachers[t],
                                                       data.rooms, draws[i])),
                             [array EXCEPT ![i] = Len(objects) + 1],
                             data, hit, draws, i + 1)

\* A variant without the copy: the loop writes to the array it was given.
mutateRefsInPlace(objects, slots, data, hit, draws) ==
    LET r == mutateRefsFrom(objects, slots, data, hit, draws, 1)
    IN  [fault |-> r.fault, objects |-> r.objects, input |-> r.array,
         slots |-> r.array]

\* mutate(individual, data) for an individual whose slots array is slots:
\* JSON.parse(JSON.stringify(.)) makes a new array of new gene objects, and
\* the loop writes to that array.  The result: the heap, the input's array
\* and the returned individual's array as the call leaves them.
mutateRefs(objects, slots, data, hit, draws) ==
    LET copies == [i \in DOMAIN slots |->
                     [f \in DOMAIN objects[slots[i]] |-> objects[slots[i]][f]]]
        r == mutateRefsFrom(objects \o copies,
                            [i \in DOMAIN slots |-> Len(objects) + i],
                            data, hit, draws, 1)
    IN  [fault |-> r.fault, objects |-> r.objects, input |-> slots,
         slots |-> r.array]

-----------------------------------------------------------------------------
(* formatTimetable and generateSuggestions.  An optional value (the result  *)
(* of a find, or null) is the empty sequence or the value in a sequence.    *)

Optional(xs, k) == IF k = 0 THEN <<>> ELSE <<xs[k]>>

\* A filter that looks at the capacity only.
RECURSIVE suitableRoomsAnyType(_, _, _)
suitableRoomsAnyType(rooms, maxStudents, k) ==
    IF k > Len(rooms) THEN <<>>
    ELSE (IF rooms[k].capacity >= maxStudents THEN <<rooms[k]>> ELSE <<>>)
         \o suitableRoomsAnyType(rooms, maxStudents, k + 1)

\* rooms.filter(r => r.capacity >= maxStudents && r.roomType === 'CLASSROOM')
RECURSIVE suitableRooms(_, _, _)
suitableRooms(rooms, maxStudents, k) ==
    IF k > Len(rooms) THEN <<>>
    ELSE (IF rooms[k].capacity >= maxStudents /\ rooms[k].roomType = "CLASSROOM"
          THEN <<rooms[k]>> ELSE <<>>)
         \o suitableRooms(rooms, maxStudents, k + 1)

\* A test that leaves the gene itself out of the genes it looks at.
hasConflictOtherGenes(slot, allSlots, day, timeSlot) ==
    \E k \in DOMAIN allSlots :
        /\ allSlots[k] # slot
        /\ allSlots[k].teacherId = slot.teacherId
        /\ allSlots[k].dayOfWeek = day
        /\ timeOverlap(allSlots[k].startTime, allSlots[k].endTime,
                       timeSlot.start, timeSlot.end)

\* allSlots.some(s => s.teacherId === slot.teacherId && s.dayOfWeek === day
\*                    && this.timeOverlap(...))
hasConflict(slot, allSlots, day, timeSlot) ==
    \E k \in DOMAIN allSlots :
        /\ allSlots[k].teacherId = slot.teacherId
        /\ allSlots[k].dayOfWeek = day
        /\ timeOverlap(allSlots[k].startTime, allSlots[k].endTime,
                       timeSlot.start, timeSlot.end)

\* The two nested loops of findAlternativeTimes, from position n of the
\* day-by-day, period-by-period scan (n = 0 is day 1, period 1).
RECURSIVE alternativesFrom(_, _, _)
alternativesFrom(slot, allSlots, n) ==
    IF n >= Len(days) * Len(timeSlots) THEN <<>>
    ELSE LET day == days[(n \div Len(timeSlots)) + 1]
             timeSlot == timeSlots[(n % Len(timeSlots)) + 1]
         IN  (IF hasConflict(slot, allSlots, day, timeSlot) THEN <<>>
              ELSE <<[dayOfWeek |-> day, startTime |-> timeSlot.start,
                      endTime |-> timeSlot.end]>>)
             \o alternativesFrom(slot, allSlots, n + 1)

\* alternatives.slice(0, 3)
findAlternativeTimes(slot, allSlots) ==
    LET alternatives == alternativesFrom(slot, allSlots, 0)
    IN  SubSeq(alternatives, 1, IF Len(alternatives) < 3 THEN Len(alternatives) ELSE 3)

\* The first loop of generateSuggestions, from conflict k.
RECURSIVE roomChanges(_, _, _)
roomChanges(conflicts, rooms, k) ==
    IF k > Len(conflicts) THEN <<>>
    ELSE (IF conflicts[k].type = "CAPACITY_EXCEEDED"
          THEN LET suitable == suitableRooms(rooms, conflicts[k].course.maxStudents, 1)
               IN  IF Len(suitable) > 0
                   THEN <<[type |-> "ROOM_CHANGE", slot |-> conflicts[k].slot,
                           suggestedRoom |-> suitable[1],
                           reason |-> "Capacity exceeded"]>>
                   ELSE <<>>
          ELSE <<>>)
         \o roomChanges(conflicts, rooms, k + 1)

\* The second loop of generateSuggestions, from conflict k.
RECURSIVE timeChanges(_, _, _)
timeChanges(conflicts, allSlots, k) ==
    IF k > Len(conflicts) THEN <<>>
    ELSE (IF conflicts[k].type \in {"TEACHER_CONFLICT", "ROOM_CONFLICT"}
          THEN <<[type |-> "TIME_CHANGE", slot |-> conflicts[k].slot1,
                  reason |-> "Conflict with another class",
                  alternatives |->
                      findAlternativeTimes(conflicts[k].slot1, allSlots)]>>
          ELSE <<>>)
         \o timeChanges(conflicts, allSlots, k + 1)

generateSuggestions(individual, data) ==
    roomChanges(individual.conflicts, data.rooms, 1)
      \o timeChanges(individual.conflicts, individual.slots, 1)

formatTimetable(individual, data, params) ==
    [semester     |-> params.semester,
     academicYear |-> params.academicYear,
     slots        |-> [i \in DOMAIN individual.slots |->
                        LET slot == individual.slots[i]
                        IN  [courseId  |-> slot.courseId,
                             teacherId |-> slot.teacherId,
                             roomId    |-> slot.roomId,
                             dayOfWeek |-> slot.dayOfWeek,
                             startTime |-> slot.startTime,
                             endTime   |-> slot.endTime,
                             course  |-> Optional(data.courses,
                                                  find(data.courses, slot.courseId)),
                             teacher |-> Optional(data.teachers,
                                                  find(data.teachers, slot.teacherId)),
                             room    |-> Optional(data.rooms,
                                                  find(data.rooms, slot.roomId))]],
     conflicts    |-> individual.conflicts,
     suggestions  |-> generateSuggestions(individual, data),
     fitness      |-> individual.fitness]

\* A validation that does not look at the rooms.
validateInputsNoRooms(students, teachers, courses, rooms) ==
    IF Len(students) = 0 THEN "No students found"
    ELSE IF Len(teachers) = 0 THEN "No teachers found"
    ELSE IF Len(courses) = 0 THEN "No courses found"
    ELSE ""

\* validateInputs: the message of the error thrown, "" when none is.
validateInputs(students, teachers, courses, rooms) ==
    IF Len(students) = 0 THEN "No students found"
    ELSE IF Len(teachers) = 0 THEN "No teachers found"
    ELSE IF Len(courses) = 0 THEN "No courses found"
    ELSE IF Len(rooms) = 0 THEN "No rooms found"
    ELSE ""

\* status: error ? 'FAILED' : 'SUCCESS', error being null or a message: the
\* empty string is falsy, as null is.
logStatus(error) ==
    IF error = <<>> \/ error = <<"">> THEN "SUCCESS" ELSE "FAILED"

\* The data logAIOperation hands to aiLog.create (executionTime, a reading of
\* the clock, is left out).
logRecord(operation, inputData, outputData, error) ==
    [operation   |-> operation,
     inputData   |-> inputData,
     outputData  |-> outputData,
     conflicts   |-> IF outputData = <<>> THEN <<>> ELSE outputData[1].conflicts,
     suggestions |-> IF outputData = <<>> THEN <<>> ELSE outputData[1].suggestions,
     status      |-> logStatus(error)]

-----------------------------------------------------------------------------
(* The runs of generateTimetable that are explored *)

Fetches == {"students", "teachers", "courses", "rooms", "existingTimetables"}

\* The request; its id lists only select what the data collaborator answers.
params == [semester |-> 3, academicYear |-> "2024-25"]

\* An answer of the data collaborator: the rows, or a rejection.
Rows(value) == [fails |-> FALSE, value |-> value, message |-> ""]
Rejection(message) == [fails |-> TRUE, value |-> <<>>, message |-> message]

\* An error object: its message and the place that raised it.
Error(message, from) == [message |-> message, from |-> from]

teacher1 == Teacher("t1", 40)
teacher2 == Teacher("t2", 1)
course1 == Course("c1", "t1", 3, 25)
\* A course with no maxStudents declared.
course2 == Course("c2", "t2", 3, 0)
course3 == Course("c3", "t1", 4, 30)
room1 == Room("r1", 30, "CLASSROOM")
room2 == Room("r2", 20, "COMPUTER_LAB")
\* A teacher whose maxWorkload was set below zero, and a course of theirs.
teacher3 == Teacher("t3", -9)
course4 == Course("c4", "t3", 3, 0)
Committed == <<Existing("t1", 1, <<10, 30>>, <<11, 0>>),
               Existing("t2", 1, <<10, 30>>, <<11, 0>>)>>

Answers(students, teachers, courses, rooms, existingTimetables) ==
    [students |-> Rows(students), teachers |-> Rows(teachers),
     courses |-> Rows(courses), rooms |-> Rows(rooms),
     existingTimetables |-> Rows(existingTimetables)]

\* Some of the fetches are rejected, with an ordinary or an empty message.
FailingDbs ==
    { [f \in Fetches |->
         IF f \in failing THEN Rejection(message)
         ELSE Answers(<<Student("s1")>>, <<teacher1>>, <<course1>>,
                      <<room1>>, <<>>)[f]] :
        failing \in (SUBSET Fetches) \ {{}},
        message \in {"Database error", ""} }

\* Every combination of empty and non-empty collections.
ValidationDbs ==
    { Answers(s, t, c, r, e) :
        s \in {<<>>, <<Student("s1")>>}, t \in {<<>>, <<teacher1>>},
        c \in {<<>>, <<course1>>}, r \in {<<>>, <<room1>>},
        e \in {<<>>, Committed} }

\* Snapshots with one room and at most one schedulable course.
SearchDbs ==
    { Answers(<<Student("s1")>>, t, c, r, e) :
        t \in {<<teacher1>>, <<teacher2>>, <<teacher1, teacher2>>},
        c \in {<<course1>>, <<course2>>, <<course1, course2>>},
        r \in {<<room1>>, <<room2>>},
        e \in {<<>>, Committed} }
      \ { Answers(<<Student("s1")>>, <<teacher1, teacher2>>,
                   <<course1, course2>>, r, e) :
            r \in {<<room1>>, <<room2>>}, e \in {<<>>, Committed} }

\* Snapshots with two schedulable courses, or with two rooms.
PairDbs ==
    { Answers(<<Student("s1")>>, <<teacher1, teacher2>>, <<course1, course2>>,
              <<room1>>, <<>>),
      Answers(<<Student("s1")>>, <<teacher1>>, <<course1, course3>>,
              <<room1>>, <<>>),
      Answers(<<Student("s1")>>, <<teacher1>>, <<course1>>,
              <<room1, room2>>, <<>>),
      Answers(<<Student("s1")>>, <<teacher1>>, <<course1, course2>>,
              <<room1, room2>>, Committed) }

\* A snapshot whose only individual is penalised down to fitness 0.
FlooredDbs ==
    { Answers(<<Student("s1")>>, <<teacher3>>, <<course4>>, <<room1>>, <<>>) }

\* parseFloat(process.env.AI_CONFLICT_THRESHOLD) || 0.8: the default, and 1.0.
Configs ==
    [db : FailingDbs \cup ValidationDbs \cup PairDbs \cup FlooredDbs,
     threshold : {DefaultThreshold}]
      \cup [db : SearchDbs, threshold : {DefaultThreshold, BaseFitness}]

\* The outcomes of Math.random() explored: the day and the period drawn are
\* among these indices of days and timeSlots, the room is any of the rooms.
DayDraws == {1}
TimeSlotDraws == {1, 2}
Draws(rooms) == [day : DayDraws, timeSlot : TimeSlotDraws, room : DOMAIN rooms]

-----------------------------------------------------------------------------
(* generateTimetable, step by step *)

NoStats ==
    [initialized |-> 0, gaStarted |-> 0, evaluations |-> 0, selections |-> 0,
     crossovers |-> 0, mutations |-> 0, maxSeen |-> -1, stop |-> ""]

Init ==
    /\ \E c \in Configs : db = c.db /\ conflictThreshold = c.threshold
    /\ pc = "start"
    /\ fetchCalls = [f \in Fetches |-> 0]
    /\ snapshot = <<>>
    /\ caught = <<>>
    /\ population = <<>>
    /\ generation = 0
    /\ stats = NoStats
    /\ timetable = <<>>
    /\ outcome = <<>>
    /\ logCalls = <<>>
    /\ aiLog = <<>>
    /\ evalIn = <<>>
    /\ evalOut = <<>>

\* await Promise.all([...five fetches...]): each fetch is called once; the
\* promise rejects with the error of the fetch that rejects first.
Fetch ==
    /\ pc = "start"
    /\ fetchCalls' = [f \in Fetches |-> fetchCalls[f] + 1]
    /\ LET failing == { f \in Fetches : db[f].fails }
       IN  IF failing = {}
           THEN /\ snapshot' = [f \in Fetches |-> db[f].value]
                /\ pc' = "validate"
                /\ UNCHANGED caught
           ELSE /\ \E f \in failing : caught' = <<Error(db[f].message, f)>>
                /\ pc' = "catch"
                /\ UNCHANGED snapshot
    /\ UNCHANGED <<db, conflictThreshold, population, generation, stats,
                   timetable, outcome, logCalls, aiLog, evalIn, evalOut>>

\* this.validateInputs(students, teachers, courses, rooms)
Validate ==
    /\ pc = "validate"
    /\ LET message == validateInputs(snapshot.students, snapshot.teachers,
                                     snapshot.courses, snapshot.rooms)
       IN  IF message = ""
           THEN pc' = "initialize" /\ UNCHANGED caught
           ELSE pc' = "catch" /\ caught' = <<Error(message, "validateInputs")>>
    /\ UNCHANGED <<db, conflictThreshold, fetchCalls, snapshot, population,
                   generation, stats, timetable, outcome, logCalls, aiLog,
                   evalIn, evalOut>>

\* geneticAlgorithm is entered: initializePopulation(populationSize, data)
InitializePopulation ==
    /\ pc = "initialize"
    /\ LET individuals ==
             { randomIndividual(snapshot, draws) :
                 draws \in [DOMAIN snapshot.courses -> Draws(snapshot.rooms)] }
       IN  population' \in [1..populationSize -> individuals]
    /\ generation' = 0
    /\ stats' = [stats EXCEPT !.initialized = @ + 1, !.gaStarted = @ + 1]
    /\ pc' = "evaluate"
    /\ UNCHANGED <<db, conflictThreshold, fetchCalls, snapshot, caught,
                   timetable, outcome, logCalls, aiLog, evalIn, evalOut>>

MaxFitness(pop) ==
    CHOOSE m \in { pop[i].fitness : i \in DOMAIN pop } :
        \A i \in DOMAIN pop : pop[i].fitness <= m

\* One turn of the loop up to the convergence test: evaluate every
\* individual, sort, and leave the loop if the best reaches the threshold.
EvaluateGeneration ==
    /\ pc = "evaluate"
    /\ LET sorted == sortByFitness(evaluateAll(population, snapshot))
       IN  /\ population' = sorted
           /\ IF converged(sorted, conflictThreshold)
              THEN /\ pc' = "format"
                   /\ stats' = [stats EXCEPT
                                  !.evaluations = @ + Len(population),
                                  !.maxSeen = Max(@, MaxFitness(sorted)),
                                  !.stop = "converged"]
              ELSE /\ pc' = "breed"
                   /\ stats' = [stats EXCEPT
                                  !.evaluations = @ + Len(population),
                                  !.maxSeen = Max(@, MaxFitness(sorted))]
    /\ UNCHANGED <<db, conflictThreshold, fetchCalls, snapshot, caught,
                   generation, timetable, outcome, logCalls, aiLog, evalIn,
                   evalOut>>

\* The parents tournamentSelection can return from this population.
Parents(pop) ==
    { tournamentSelection(pop, draws) :
        draws \in [1..tournamentSize -> DOMAIN pop] }

\* What one turn of the while loop can push: select twice, cross, mutate.
Offspring(pop, data) ==
    UNION { { mutate(crossover(p[1], p[2], coin), data, hit, draws) :
                coin \in [1..Max(Len(p[1].slots), Len(p[2].slots)) -> BOOLEAN],
                hit \in [1..Max(Len(p[1].slots), Len(p[2].slots)) -> BOOLEAN],
                draws \in [1..Max(Len(p[1].slots), Len(p[2].slots))
                             -> Draws(data.rooms)] } :
            p \in Parents(pop) \X Parents(pop) }

\* An elite taken from the end of the sorted population.
eliteFromEnd(pop) == SubSeq(pop, Len(pop) - eliteCount + 1, Len(pop))

\* population.slice(0, eliteCount)
elite(pop) == SubSeq(pop, 1, eliteCount)

\* A loop test that lets one more turn through.
inBudgetInclusive(g) == g <= generations

\* for (...; generation < generations; ...)
inBudget(g) == g < generations

\* The rest of the turn: the elite is kept, the population is filled with
\* offspring, and the loop counter advances.  A fault in mutate is thrown.
Breed ==
    /\ pc = "breed"
    /\ \E kids \in [1..(populationSize - eliteCount)
                      -> Offspring(population, snapshot)] :
         IF \E k \in DOMAIN kids : kids[k].fault
         THEN /\ pc' = "catch"
              /\ caught' = <<Error("Cannot read properties of undefined", "mutate")>>
              /\ UNCHANGED <<population, generation, stats>>
         ELSE /\ population' = elite(population)
                                 \o [k \in DOMAIN kids |-> kids[k].individual]
              /\ generation' = generation + 1
              /\ pc' = IF inBudget(generation + 1) THEN "evaluate" ELSE "format"
              /\ stats' = [stats EXCEPT
                             !.selections = @ + 2 * (populationSize - eliteCount),
                             !.crossovers = @ + (populationSize - eliteCount),
                             !.mutations = @ + (populationSize - eliteCount),
                             !.stop = IF inBudget(generation + 1)
                                      THEN @ ELSE "exhausted"]
              /\ UNCHANGED caught
    /\ UNCHANGED <<db, conflictThreshold, fetchCalls, snapshot, timetable,
                   outcome, logCalls, aiLog, evalIn, evalOut>>

\* const bestSolution = population[0]; return this.formatTimetable(...)
Format ==
    /\ pc = "format"
    /\ timetable' = <<formatTimetable(population[1], snapshot, params)>>
    /\ pc' = "log"
    /\ UNCHANGED <<db, conflictThreshold, fetchCalls, snapshot, caught,
                   population, generation, stats, outcome, logCalls, aiLog,
                   evalIn, evalOut>>

\* await this.logAIOperation('GENERATE', params, timetable, startTime): the
\* record is handed to aiLog.create, whose failure is swallowed.
LogSuccess ==
    /\ pc = "log"
    /\ logCalls' = Append(logCalls, [operation |-> "GENERATE",
                                     outputData |-> timetable, error |-> <<>>])
    /\ \E stored \in BOOLEAN :
         aiLog' = Append(aiLog, [data |-> logRecord("GENERATE", params, timetable, <<>>),
                                 stored |-> stored])
    /\ pc' = "return"
    /\ UNCHANGED <<db, conflictThreshold, fetchCalls, snapshot, caught,
                   population, generation, stats, timetable, outcome, evalIn,
                   evalOut>>

\* return { success: true, timetable, conflicts, suggestions, executionTime }
Return ==
    /\ pc = "return"
    /\ outcome' = [kind |-> "resolved", success |-> TRUE,
                   timetable |-> timetable,
                   conflicts |-> timetable[1].conflicts,
                   suggestions |-> timetable[1].suggestions,
                   error |-> <<>>]
    /\ pc' = "done"
    /\ UNCHANGED <<db, conflictThreshold, fetchCalls, snapshot, caught,
                   population, generation, stats, timetable, logCalls, aiLog,
                   evalIn, evalOut>>

\* catch (error): await this.logAIOperation('GENERATE', params, null,
\* startTime, error.message)
LogFailure ==
    /\ pc = "catch"
    /\ logCalls' = Append(logCalls, [operation |-> "GENERATE", outputData |-> <<>>,
                                     error |-> <<caught[1].message>>])
    /\ \E stored \in BOOLEAN :
         aiLog' = Append(aiLog,
                         [data |-> logRecord("GENERATE", params, <<>>,
                                             <<caught[1].message>>),
                          stored |-> stored])
    /\ pc' = "throw"
    /\ UNCHANGED <<db, conflictThreshold, fetchCalls, snapshot, caught,
                   population, generation, stats, timetable, outcome, evalIn,
                   evalOut>>

\* A catch block that throws a new error in place of the one caught.
ThrowWrapped ==
    /\ pc = "throw"
    /\ outcome' = [kind |-> "rejected", success |-> FALSE, timetable |-> <<>>,
                   conflicts |-> <<>>, suggestions |-> <<>>,
                   error |-> <<Error("Timetable generation failed",
                                     "generateTimetable")>>]
    /\ pc' = "done"
    /\ UNCHANGED <<db, conflictThreshold, fetchCalls, snapshot, caught,
                   population, generation, stats, timetable, logCalls, aiLog,
                   evalIn, evalOut>>

\* throw error
Throw ==
    /\ pc = "throw"
    /\ outcome' = [kind |-> "rejected", success |-> FALSE, timetable |-> <<>>,
                   conflicts |-> <<>>, suggestions |-> <<>>, error |-> caught]
    /\ pc' = "done"
    /\ UNCHANGED <<db, conflictThreshold, fetchCalls, snapshot, caught,
                   population, generation, stats, timetable, logCalls, aiLog,
                   evalIn, evalOut>>

Next ==
    \/ Fetch
    \/ Validate
    \/ InitializePopulation
    \/ EvaluateGeneration
    \/ Breed
    \/ Format
    \/ LogSuccess
    \/ Return
    \/ LogFailure
    \/ Throw

Spec == Init /\ [][Next]_vars

-----------------------------------------------------------------------------
(* The fitness evaluator alone: one call of calculateFitness on an          *)
(* individual and a snapshot drawn from bounded sets.                       *)

EvalTeachers == { <<Teacher("t1", 2), Teacher("t2", 1)>>, <<Teacher("t1", 2)>> }

EvalCourses == { <<Course("c1", "t1", 3, 25), Course("c3", "t2", 3, 30)>>,
                 <<Course("c3", "t2", 3, 30)>> }

EvalRooms == <<Room("r1", 30, "CLASSROOM"), Room("r2", 20, "COMPUTER_LAB")>>

\* One committed entry that ends where the first period starts being free
\* (10:30), and one that spans the first two periods, on another day.
EvalExisting ==
    { <<>>,
      <<Existing("t1", 1, <<10, 30>>, <<11, 0>>)>>,
      <<Existing("t1", 1, <<10, 30>>, <<11, 0>>),
        Existing("t2", 2, <<9, 0>>, <<12, 0>>)>> }

EvalData ==
    { [students |-> <<Student("s1")>>, teachers |-> ts, courses |-> cs,
       rooms |-> EvalRooms, existingTimetables |-> es] :
         ts \in EvalTeachers, cs \in EvalCourses, es \in EvalExisting }

EvalGenes ==
    { Slot(c, [id |-> c.teacherId], r, dp[1], timeSlots[dp[2]]) :
        c \in { Course("c1", "t1", 3, 25), Course("c3", "t2", 3, 30) },
        r \in { EvalRooms[k] : k \in DOMAIN EvalRooms },
        dp \in { <<1, 1>>, <<1, 2>>, <<2, 1>> } }

EvalIndividuals ==
    UNION { { NewIndividual(g) : g \in [1..n -> EvalGenes] } : n \in 0..MaxGenes }

InitFitness ==
    /\ evalIn \in [individual : EvalIndividuals, data : EvalData]
    /\ evalOut = <<>>
    /\ pc = "evaluator"
    /\ db = <<>>
    /\ conflictThreshold = DefaultThreshold
    /\ fetchCalls = <<>>
    /\ snapshot = <<>>
    /\ caught = <<>>
    /\ population = <<>>
    /\ generation = 0
    /\ stats = <<>>
    /\ timetable = <<>>
    /\ outcome = <<>>
    /\ logCalls = <<>>
    /\ aiLog = <<>>

Evaluate ==
    /\ pc = "evaluator"
    /\ evalOut = <<>>
    /\ evalOut' = calculateFitness(evalIn.individual, evalIn.data)
    /\ UNCHANGED <<evalIn, driverVars>>

NextFitness == Evaluate

SpecFitness == InitFitness /\ [][NextFitness]_vars

-----------------------------------------------------------------------------
(* The helpers and the operators of the search, each called alone.  evalIn  *)
(* is the call (the method and its arguments), evalOut its result.          *)

CallTimes == { <<h, m>> : h \in {9, 10, 11}, m \in {0, 30} }

TimeOverlapCalls ==
    [op : {"timeOverlap"}, start1 : CallTimes, end1 : CallTimes,
     start2 : CallTimes, end2 : CallTimes]

\* Genes as calculateTeacherWorkloads reads them: a teacher and a time range.
WorkloadGenes ==
    { [teacherId |-> t, startTime |-> r[1], endTime |-> r[2]] :
        t \in {"t1", "t2", "t3"},
        r \in { <<<<9, 0>>, <<10, 30>>>>, <<<<11, 0>>, <<12, 30>>>>,
                <<<<13, 0>>, <<14, 0>>>> } }

WorkloadCalls ==
    [op : {"calculateTeacherWorkloads"},
     slots : UNION { [1..n -> WorkloadGenes] : n \in 0..MaxGenes },
     teachers : { <<Teacher("t1", 40)>>, <<Teacher("t1", 40), Teacher("t2", 35)>>,
                  <<Teacher("t2", 35), Teacher("t1", 40)>> }]

\* A gene of course c1 in the period k of the day.
GeneAt(k) ==
    Slot(Course("c1", "t1", 3, 25), Teacher("t1", 40), EvalRooms[1], 1, timeSlots[k])

\* Parents of up to MaxGenes genes, and a parent of 5 with a parent of 3.
CrossParents ==
    { <<NewIndividual(p1), NewIndividual(p2)>> :
        p1 \in UNION { [1..n -> {GeneAt(1), GeneAt(2)}] : n \in 0..MaxGenes },
        p2 \in UNION { [1..n -> {GeneAt(1), GeneAt(2)}] : n \in 0..MaxGenes } }
      \cup { <<NewIndividual([i \in 1..5 |-> GeneAt(1)]),
               NewIndividual([i \in 1..3 |-> GeneAt(2)])>>,
             <<NewIndividual([i \in 1..3 |-> GeneAt(2)]),
               NewIndividual([i \in 1..5 |-> GeneAt(1)])>> }

CrossoverCalls ==
    UNION { [op : {"crossover"}, parent1 : {p[1]}, parent2 : {p[2]},
             coin : [1..Max(Len(p[1].slots), Len(p[2].slots)) -> BOOLEAN]] :
            p \in CrossParents }

\* Evaluated populations of 2 and of 4 individuals that differ in their gene,
\* with every assignment of three fitness values, and every draw of indices.
TournamentCalls ==
    UNION { [op : {"tournamentSelection"},
             population : { [k \in 1..n |->
                              [slots |-> <<GeneAt(k)>>, conflicts |-> <<>>,
                               fitness |-> f[k]]] :
                            f \in [1..n -> {480, 540, 600}] },
             draws : [1..tournamentSize -> 1..n]] :
            n \in {2, 4} }

\* The genes of two parents (addresses 1, 2 and 3, 4), the children a
\* crossover can make of them, and snapshots in which every course and
\* teacher of a gene is found, or a teacher or a course is missing.
ParentGenes ==
    << Slot(course1, teacher1, room1, 1, timeSlots[1]),
       Slot(course2, teacher2, room1, 1, timeSlots[1]),
       Slot(course1, teacher1, room1, 2, timeSlots[2]),
       Slot(course2, teacher2, room1, 2, timeSlots[2]) >>

MutateData ==
    [students : {<<Student("s1")>>},
     teachers : {<<teacher1, teacher2>>, <<teacher1>>},
     courses : {<<course1, course2>>, <<course1>>},
     rooms : {<<room1, room2>>}]

MutateDraws == [day : {1, 2}, timeSlot : {1, 3}, room : {1, 2}]

MutateCalls ==
    [op : {"mutate"}, objects : {ParentGenes},
     slots : {<<1, 2>>, <<1, 4>>, <<3, 2>>, <<3, 4>>},
     data : MutateData, hit : [1..2 -> BOOLEAN], draws : [1..2 -> MutateDraws]]

\* Calls of generateSuggestions on an evaluated individual.  The rooms are
\* every list of up to three of four rooms, in every order; the two genes
\* are of two of three courses, in any room of the list.
SuggestionRooms ==
    { Room("r1", 20, "CLASSROOM"), Room("r2", 30, "CLASSROOM"),
      Room("r3", 40, "CLASSROOM"), Room("r4", 40, "COMPUTER_LAB") }

RoomLists ==
    UNION { { rooms \in [1..n -> SuggestionRooms] :
                \A i, j \in 1..n : i # j => rooms[i] # rooms[j] } : n \in 1..3 }

SuggestionTeachers == <<Teacher("t1", 40), Teacher("t2", 35)>>

SuggestionCourses ==
    <<Course("c1", "t1", 3, 30), Course("c2", "t2", 3, 35), Course("c3", "t2", 3, 45)>>

SuggestionData(rooms) ==
    [students |-> <<Student("s1")>>, teachers |-> SuggestionTeachers,
     courses |-> SuggestionCourses, rooms |-> rooms, existingTimetables |-> <<>>]

\* The gene generateRandomSlot makes of course c for these drawn indices.
SuggestionGene(c, rooms, draw) ==
    generateRandomSlot(SuggestionCourses[c],
                       SuggestionTeachers[find(SuggestionTeachers,
                                               SuggestionCourses[c].teacherId)],
                       rooms, draw)

RoomSuggestionCalls ==
    UNION { { [op |-> "generateSuggestions",
               individual |->
                   evaluated(NewIndividual(<<SuggestionGene(c[1], rooms, d1),
                                             SuggestionGene(c[2], rooms, d2)>>),
                             SuggestionData(rooms)),
               data |-> SuggestionData(rooms)] :
                c \in {<<1, 2>>, <<1, 3>>, <<2, 3>>},
                d1 \in [day : {1}, timeSlot : {1}, room : DOMAIN rooms],
                d2 \in [day : {1}, timeSlot : {1, 2}, room : DOMAIN rooms] } :
            rooms \in RoomLists }

\* Calls of generateSuggestions on evaluated individuals of two to four
\* genes, all on Monday in the one room, each of course c1 (teacher t1) or
\* c2 (teacher t2) in one of the first four periods.
TimeSuggestionRooms == <<Room("r3", 40, "CLASSROOM")>>

TimeSuggestionCalls ==
    UNION { { [op |-> "generateSuggestions",
               individual |->
                   evaluated(NewIndividual(
                                 [i \in 1..n |->
                                    SuggestionGene(g[i][1], TimeSuggestionRooms,
                                                   [day |-> 1, timeSlot |-> g[i][2],
                                                    room |-> 1])]),
                             SuggestionData(TimeSuggestionRooms)),
               data |-> SuggestionData(TimeSuggestionRooms)] :
                g \in [1..n -> {1, 2} \X (1..4)] } :
            n \in 2..4 }

InitOperators ==
    /\ \/ evalIn \in TimeOverlapCalls
       \/ evalIn \in WorkloadCalls
       \/ evalIn \in CrossoverCalls
       \/ evalIn \in TournamentCalls
       \/ evalIn \in MutateCalls
    /\ evalOut = <<>>
    /\ pc = "operator"
    /\ db = <<>>
    /\ conflictThreshold = DefaultThreshold
    /\ fetchCalls = <<>>
    /\ snapshot = <<>>
    /\ caught = <<>>
    /\ population = <<>>
    /\ generation = 0
    /\ stats = <<>>
    /\ timetable = <<>>
    /\ outcome = <<>>
    /\ logCalls = <<>>
    /\ aiLog = <<>>

CallTimeOverlap ==
    /\ pc = "operator"
    /\ evalOut = <<>>
    /\ evalIn.op = "timeOverlap"
    /\ evalOut' = <<timeOverlap(evalIn.start1, evalIn.end1,
                                evalIn.start2, evalIn.end2)>>
    /\ UNCHANGED <<evalIn, driverVars>>

CallCalculateTeacherWorkloads ==
    /\ pc = "operator"
    /\ evalOut = <<>>
    /\ evalIn.op = "calculateTeacherWorkloads"
    /\ evalOut' = <<calculateTeacherWorkloads(evalIn.slots, evalIn.teachers)>>
    /\ UNCHANGED <<evalIn, driverVars>>

CallCrossover ==
    /\ pc = "operator"
    /\ evalOut = <<>>
    /\ evalIn.op = "crossover"
    /\ evalOut' = <<crossover(evalIn.parent1, evalIn.parent2, evalIn.coin)>>
    /\ UNCHANGED <<evalIn, driverVars>>

CallTournamentSelection ==
    /\ pc = "operator"
    /\ evalOut = <<>>
    /\ evalIn.op = "tournamentSelection"
    /\ evalOut' = <<tournamentSelection(evalIn.population, evalIn.draws)>>
    /\ UNCHANGED <<evalIn, driverVars>>

CallMutate ==
    /\ pc = "operator"
    /\ evalOut = <<>>
    /\ evalIn.op = "mutate"
    /\ evalOut' = <<mutateRefs(evalIn.objects, evalIn.slots, evalIn.data,
                               evalIn.hit, evalIn.draws)>>
    /\ UNCHANGED <<evalIn, driverVars>>

CallGenerateSuggestions ==
    /\ pc = "operator"
    /\ evalOut = <<>>
    /\ evalIn.op = "generateSuggestions"
    /\ evalOut' = <<generateSuggestions(evalIn.individual, evalIn.data)>>
    /\ UNCHANGED <<evalIn, driverVars>>

NextOperators ==
    \/ CallTimeOverlap
    \/ CallCalculateTeacherWorkloads
    \/ CallCrossover
    \/ CallTournamentSelection
    \/ CallMutate

SpecOperators == InitOperators /\ [][NextOperators]_vars

\* generateSuggestions called alone, on the individuals and snapshots above.
InitSuggestions ==
    /\ evalIn \in RoomSuggestionCalls \cup TimeSuggestionCalls
    /\ evalOut = <<>>
    /\ pc = "operator"
    /\ db = <<>>
    /\ conflictThreshold = DefaultThreshold
    /\ fetchCalls = <<>>
    /\ snapshot = <<>>
    /\ caught = <<>>
    /\ population = <<>>
    /\ generation = 0
    /\ stats = <<>>
    /\ timetable = <<>>
    /\ outcome = <<>>
    /\ logCalls = <<>>
    /\ aiLog = <<>>

NextSuggestions == CallGenerateSuggestions

SpecSuggestions == InitSuggestions /\ [][NextSuggestions]_vars

\* The call of this method has returned.
Returned(op) == pc = "operator" /\ evalIn.op = op /\ evalOut # <<>>

-----------------------------------------------------------------------------
(* Evaluations of a few individuals against one snapshot, in any order and  *)
(* any number of times.  evalIn keeps the individuals and the snapshot as   *)
(* they were before the first call, evalOut lists the calls made.           *)

MaxEvaluations == 3

PoolGenes == { g \in EvalGenes : g.roomId = "r1" /\ g.dayOfWeek = 1 }

PoolIndividuals ==
    UNION { { NewIndividual(g) : g \in [1..n -> PoolGenes] } : n \in 0..2 }

PoolData == { d \in EvalData : Len(d.teachers) = 2 /\ Len(d.courses) = 2 }

InitEvaluations ==
    /\ population \in [1..2 -> PoolIndividuals]
    /\ snapshot \in PoolData
    /\ evalIn = [population |-> population, snapshot |-> snapshot]
    /\ evalOut = <<>>
    /\ pc = "evaluations"
    /\ db = <<>>
    /\ conflictThreshold = DefaultThreshold
    /\ fetchCalls = <<>>
    /\ caught = <<>>
    /\ generation = 0
    /\ stats = <<>>
    /\ timetable = <<>>
    /\ outcome = <<>>
    /\ logCalls = <<>>
    /\ aiLog = <<>>

\* One call calculateFitness(population[i], snapshot): the individual is
\* left as the call leaves it, the value returned is noted.
EvaluateAny ==
    /\ pc = "evaluations"
    /\ Len(evalOut) < MaxEvaluations
    /\ \E i \in DOMAIN population :
         LET r == calculateFitness(population[i], snapshot)
         IN  /\ population' = [population EXCEPT ![i] = r.individual]
             /\ evalOut' = Append(evalOut,
                                  [index |-> i, slots |-> population[i].slots,
                                   fitness |-> r.fitness,
                                   conflicts |-> r.individual.conflicts])
    /\ UNCHANGED <<db, conflictThreshold, pc, fetchCalls, snapshot, caught,
                   generation, stats, timetable, outcome, logCalls, aiLog,
                   evalIn>>

NextEvaluations == EvaluateAny

SpecEvaluations == InitEvaluations /\ [][NextEvaluations]_vars

-----------------------------------------------------------------------------
(* Two calls of generateTimetable, one after the other, with the same       *)
(* request and the same answers of the data collaborator.  evalOut keeps    *)
(* what the first call returned.                                            *)

RunConfigs ==
    [db : PairDbs \cup { Answers(<<Student("s1")>>, <<teacher1>>, <<course1>>,
                                 <<>>, <<>>) },
     threshold : {DefaultThreshold}]

InitRuns ==
    /\ \E c \in RunConfigs : db = c.db /\ conflictThreshold = c.threshold
    /\ pc = "start"
    /\ fetchCalls = [f \in Fetches |-> 0]
    /\ snapshot = <<>>
    /\ caught = <<>>
    /\ population = <<>>
    /\ generation = 0
    /\ stats = NoStats
    /\ timetable = <<>>
    /\ outcome = <<>>
    /\ logCalls = <<>>
    /\ aiLog = <<>>
    /\ evalIn = <<>>
    /\ evalOut = <<>>

\* The controller calls generateTimetable(params) a second time: nothing of
\* the first call is kept by the service.
CallAgain ==
    /\ pc = "done"
    /\ evalOut = <<>>
    /\ evalOut' = <<outcome>>
    /\ pc' = "start"
    /\ fetchCalls' = [f \in Fetches |-> 0]
    /\ snapshot' = <<>>
    /\ caught' = <<>>
    /\ population' = <<>>
    /\ generation' = 0
    /\ stats' = NoStats
    /\ timetable' = <<>>
    /\ outcome' = <<>>
    /\ logCalls' = <<>>
    /\ aiLog' = <<>>
    /\ UNCHANGED <<db, conflictThreshold, evalIn>>

NextRuns ==
    \/ Next
    \/ CallAgain

SpecRuns == InitRuns /\ [][NextRuns]_vars

-----------------------------------------------------------------------------
(* The loop of geneticAlgorithm with the evaluation of a generation taken   *)
(* promise by promise.  evalIn[i] is the callback of population.map for     *)
(* individual i: not started, awaiting the fitness calculateFitness         *)
(* returned, or resolved; evalOut[i] is the value its promise resolved to.  *)

GenerationData ==
    { [students |-> <<Student("s1")>>, teachers |-> <<tc[1]>>,
       courses |-> <<tc[2]>>, rooms |-> <<room1>>, existingTimetables |-> e] :
        tc \in {<<teacher1, course1>>, <<teacher2, course2>>},
        e \in {<<>>, Committed} }

NotStarted == [status |-> "none", generation |-> 0, fitness |-> 0]

InitGeneration ==
    /\ snapshot \in GenerationData
    /\ conflictThreshold \in {DefaultThreshold, BaseFitness}
    /\ LET individuals ==
             { randomIndividual(snapshot, draws) :
                 draws \in [DOMAIN snapshot.courses -> Draws(snapshot.rooms)] }
       IN  population \in [1..populationSize -> individuals]
    /\ generation = 0
    /\ pc = "evaluate"
    /\ evalIn = [i \in 1..populationSize |-> NotStarted]
    /\ evalOut = [i \in 1..populationSize |-> <<>>]
    /\ stats = NoStats
    /\ db = <<>>
    /\ fetchCalls = <<>>
    /\ caught = <<>>
    /\ timetable = <<>>
    /\ outcome = <<>>
    /\ logCalls = <<>>
    /\ aiLog = <<>>

\* The callback of individual i has been called in this turn of the loop.
Started(calls, i) == calls[i].status # "none" /\ calls[i].generation = generation

\* population.map calls the callback of the next individual: calculateFitness
\* runs to its end (it awaits nothing), and the callback awaits its result.
CallEvaluation ==
    /\ pc = "evaluate"
    /\ LET i == CHOOSE k \in DOMAIN population :
                    /\ ~Started(evalIn, k)
                    /\ \A j \in 1..(k - 1) : Started(evalIn, j)
           r == calculateFitness(population[i], snapshot)
       IN  /\ population' = [population EXCEPT ![i] = r.individual]
           /\ evalIn' = [evalIn EXCEPT ![i] = [status |-> "awaiting",
                                               generation |-> generation,
                                               fitness |-> r.fitness]]
           /\ evalOut' = IF i = 1 THEN [k \in DOMAIN population |-> <<>>]
                                  ELSE evalOut
           /\ pc' = IF i = Len(population) THEN "await" ELSE "evaluate"
    /\ UNCHANGED <<db, conflictThreshold, fetchCalls, snapshot, caught,
                   generation, stats, timetable, outcome, logCalls, aiLog>>

\* A callback resumes and returns { ...individual, fitness }.  Callbacks
\* resume only once geneticAlgorithm itself awaits; any order is allowed.
ResumeEvaluation ==
    /\ pc = "await"
    /\ \E i \in DOMAIN population :
         /\ evalIn[i].status = "awaiting"
         /\ evalIn' = [evalIn EXCEPT ![i].status = "resolved"]
         /\ evalOut' = [evalOut EXCEPT
                          ![i] = <<[population[i] EXCEPT !.fitness = evalIn[i].fitness]>>]
    /\ UNCHANGED <<db, conflictThreshold, pc, fetchCalls, snapshot, caught,
                   population, generation, stats, timetable, outcome, logCalls,
                   aiLog>>

\* A variant that lets the loop go on when one promise has resolved.
anyResolved(calls) == \E i \in DOMAIN calls : calls[i].status = "resolved"

\* Promise.all(...) resolves when every promise has resolved.
allResolved(calls) == \A i \in DOMAIN calls : calls[i].status = "resolved"

\* The array the await yields: the resolved values.
settled(pop, results) ==
    [i \in DOMAIN pop |-> IF results[i] # <<>> THEN results[i][1] ELSE pop[i]]

\* geneticAlgorithm resumes: population = the values, sort, convergence test.
ResolveAll ==
    /\ pc = "await"
    /\ allResolved(evalIn)
    /\ LET sorted == sortByFitness(settled(population, evalOut))
       IN  /\ population' = sorted
           /\ pc' = IF converged(sorted, conflictThreshold) THEN "format" ELSE "breed"
    /\ UNCHANGED <<db, conflictThreshold, fetchCalls, snapshot, caught,
                   generation, stats, timetable, outcome, logCalls, aiLog,
                   evalIn, evalOut>>

NextGeneration ==
    \/ CallEvaluation
    \/ ResumeEvaluation
    \/ ResolveAll
    \/ Breed

SpecGeneration == InitGeneration /\ [][NextGeneration]_vars

-----------------------------------------------------------------------------
(* A call of generateTimetable whose caller holds a deadline.  evalIn is    *)
(* the caller's side of it: <<>> when there is none, <<g>> when the         *)
(* deadline has passed by the time the loop ends its turn number g (the     *)
(* boundary after the g-th evaluation).  The service is handed params only, *)
(* of which it reads five fields, and the loop of geneticAlgorithm reads    *)
(* nothing but its counter and the best fitness: no step of the run reads   *)
(* evalIn.                                                                  *)

Deadlines == {<<>>} \cup { <<g>> : g \in 1..generations }

InitCancellation ==
    /\ \E c \in RunConfigs : db = c.db /\ conflictThreshold = c.threshold
    /\ pc = "start"
    /\ fetchCalls = [f \in Fetches |-> 0]
    /\ snapshot = <<>>
    /\ caught = <<>>
    /\ population = <<>>
    /\ generation = 0
    /\ stats = NoStats
    /\ timetable = <<>>
    /\ outcome = <<>>
    /\ logCalls = <<>>
    /\ aiLog = <<>>
    /\ evalIn \in Deadlines
    /\ evalOut = <<>>

SpecCancellation == InitCancellation /\ [][Next]_vars

-----------------------------------------------------------------------------
(* Counting conflicts by definition, for the statements about the evaluator *)

\* The two time ranges have a minute in common.
SameTime(a, b) ==
    LET from == Max(moment(a.startTime), moment(b.startTime))
        to   == IF moment(a.endTime) <= moment(b.endTime)
                THEN moment(a.endTime) ELSE moment(b.endTime)
    IN  from < to

GenePairs(slots) == { p \in (DOMAIN slots) \X (DOMAIN slots) : p[1] < p[2] }

TeacherPairs(slots) ==
    { p \in GenePairs(slots) :
        /\ slots[p[1]].teacherId = slots[p[2]].teacherId
        /\ slots[p[1]].dayOfWeek = slots[p[2]].dayOfWeek
        /\ SameTime(slots[p[1]], slots[p[2]]) }

RoomPairs(slots) ==
    { p \in GenePairs(slots) :
        /\ slots[p[1]].roomId = slots[p[2]].roomId
        /\ slots[p[1]].dayOfWeek = slots[p[2]].dayOfWeek
        /\ SameTime(slots[p[1]], slots[p[2]]) }

ExistingHits(slots, existingTimetables) ==
    { p \in (DOMAIN slots) \X (DOMAIN existingTimetables) :
        /\ slots[p[1]].teacherId = existingTimetables[p[2]].teacherId
        /\ slots[p[1]].dayOfWeek = existingTimetables[p[2]].dayOfWeek
        /\ SameTime(slots[p[1]], existingTimetables[p[2]]) }

RECURSIVE SumOver(_, _)
SumOver(S, f) ==
    IF S = {} THEN 0
    ELSE LET x == CHOOSE y \in S : TRUE
         IN  f[x] + SumOver(S \ {x}, f)

\* Minutes taught by the teacher with this id.
MinutesOf(slots, id) ==
    SumOver({ i \in DOMAIN slots : slots[i].teacherId = id },
            [i \in DOMAIN slots |->
               moment(slots[i].endTime) - moment(slots[i].startTime)])

\* Teachers (positions of the list) whose minutes exceed their maxWorkload.
Overloaded(slots, teachers) ==
    { t \in DOMAIN teachers :
        MinutesOf(slots, teachers[t].id) > teachers[t].maxWorkload * 60 }

OverageMinutes(slots, teachers) ==
    SumOver(Overloaded(slots, teachers),
            [t \in DOMAIN teachers |->
               MinutesOf(slots, teachers[t].id) - teachers[t].maxWorkload * 60])

OverCapacity(slots, courses, rooms) ==
    { i \in DOMAIN slots :
        \E c \in DOMAIN courses, r \in DOMAIN rooms :
            /\ c = find(courses, slots[i].courseId)
            /\ r = find(rooms, slots[i].roomId)
            /\ courses[c].maxStudents > rooms[r].capacity }

ConflictsOfType(conflicts, type) ==
    { k \in DOMAIN conflicts : conflicts[k].type = type }

Evaluated == pc = "evaluator" /\ evalOut # <<>>

-----------------------------------------------------------------------------
(* Vocabulary of the claims about generateTimetable *)

Required == {"students", "teachers", "courses", "rooms"}

Fetched == snapshot # <<>>

EmptyCategories == { f \in Required : snapshot[f] = <<>> }

CategoryMessage ==
    [students |-> "No students found", teachers |-> "No teachers found",
     courses |-> "No courses found", rooms |-> "No rooms found"]

Failing == { f \in Fetches : db[f].fails }

Resolved == pc = "done" /\ outcome.kind = "resolved"

Rejected == pc = "done" /\ outcome.kind = "rejected"

\* Offspring created by every turn of the loop.
Brood == populationSize - eliteCount

-----------------------------------------------------------------------------
(* C1: when the fetched students, teachers, courses or rooms are empty,     *)
(* generateTimetable fails with the error naming an empty category, having  *)
(* initialized no population and evaluated no fitness; when the four are    *)
(* non-empty and only the existing timetables are empty, validation raises  *)
(* nothing and the run resolves.                                            *)

C1_EmptyInputFails ==
    /\ (Fetched /\ EmptyCategories # {} /\ pc # "validate") =>
          /\ caught # <<>>
          /\ \E f \in EmptyCategories : caught[1].message = CategoryMessage[f]
          /\ caught[1].from = "validateInputs"
          /\ stats.initialized = 0
          /\ stats.evaluations = 0
          /\ population = <<>>
          /\ pc \in {"catch", "throw", "done"}
          /\ pc = "done" => outcome.kind = "rejected" /\ outcome.error = caught
    /\ (Fetched /\ EmptyCategories = {} /\ snapshot.existingTimetables = <<>>) =>
          /\ caught = <<>>
          /\ pc = "done" => outcome.kind = "resolved"

C1_Witness ==
    /\ Rejected
    /\ Fetched
    /\ EmptyCategories = {"rooms"}
    /\ snapshot.existingTimetables # <<>>
    /\ outcome.error[1].message = "No rooms found"

-----------------------------------------------------------------------------
(* C2: when some of the five fetches fail, every fetch has been issued      *)
(* exactly once and is never issued again, no population is initialized,    *)
(* and generateTimetable rejects with the very error object of a failing    *)
(* fetch.                                                                   *)

C2_FetchFailurePropagates ==
    (Failing # {} /\ pc # "start") =>
        /\ \A f \in Fetches : fetchCalls[f] = 1
        /\ stats.gaStarted = 0
        /\ stats.initialized = 0
        /\ stats.evaluations = 0
        /\ population = <<>>
        /\ snapshot = <<>>
        /\ \E f \in Failing : caught = <<Error(db[f].message, f)>>
        /\ pc \in {"catch", "throw", "done"}
        /\ pc = "done" => outcome.kind = "rejected" /\ outcome.error = caught

C2_Witness ==
    /\ Rejected
    /\ Failing = {"students", "rooms"}
    /\ outcome.error = <<Error("Database error", "rooms")>>

-----------------------------------------------------------------------------
(* C3: every run makes exactly one logging call, made after the loop has    *)
(* ended: status SUCCESS with the produced timetable as output when the run *)
(* succeeds; status FAILED, a null output and the error message when the    *)
(* run fails, and then no timetable is returned.                            *)

C3_OneLogCall ==
    /\ Len(logCalls) = Len(aiLog)
    /\ Len(logCalls) = IF pc \in {"return", "throw", "done"} THEN 1 ELSE 0
    /\ Resolved =>
          /\ aiLog[1].data.status = "SUCCESS"
          /\ aiLog[1].data.outputData = outcome.timetable
          /\ logCalls[1].outputData = outcome.timetable
          /\ outcome.timetable # <<>>
    /\ Rejected =>
          /\ aiLog[1].data.status = "FAILED"
          /\ aiLog[1].data.outputData = <<>>
          /\ logCalls[1].outputData = <<>>
          /\ logCalls[1].error = <<outcome.error[1].message>>
          /\ outcome.timetable = <<>>

-----------------------------------------------------------------------------
(* C4 as the spec states it: with one course, its teacher, one room and no  *)
(* existing entries, the run returns success, exactly one slot, a fitness   *)
(* above 0 and zero conflicts.                                              *)

SingleCourseCase ==
    /\ Fetched
    /\ Len(snapshot.students) > 0
    /\ Len(snapshot.courses) = 1
    /\ Len(snapshot.teachers) = 1
    /\ snapshot.teachers[1].id = snapshot.courses[1].teacherId
    /\ Len(snapshot.rooms) = 1
    /\ snapshot.existingTimetables = <<>>

C4_SingleCourseNoConflicts ==
    (pc = "done" /\ SingleCourseCase) =>
        /\ outcome.kind = "resolved"
        /\ outcome.success
        /\ Len(outcome.timetable[1].slots) = 1
        /\ outcome.timetable[1].fitness > 0
        /\ outcome.conflicts = <<>>

(* C4, corrected: in that case, with students present, the run returns      *)
(* success and exactly one slot; the fitness is 1.0 less 0.1 per hour by    *)
(* which the slot's 90 minutes exceed the teacher's maxWorkload, less 0.1   *)
(* if the course's maxStudents exceed the room's capacity, and not below 0; *)
(* the conflicts are of these two kinds only, and there are none exactly    *)
(* when neither limit is exceeded.                                          *)

\* Minutes by which the one 90-minute slot exceeds the teacher's maxWorkload.
SingleOverage == Max(0, 90 - snapshot.teachers[1].maxWorkload * 60)

SingleOverCapacity ==
    snapshot.courses[1].maxStudents > snapshot.rooms[1].capacity

C4_SingleCourseCorrected ==
    (pc = "done" /\ SingleCourseCase) =>
        /\ outcome.kind = "resolved"
        /\ outcome.success
        /\ Len(outcome.timetable[1].slots) = 1
        /\ outcome.timetable[1].fitness =
              Max(0, BaseFitness - SingleOverage * WorkloadPenaltyPerMinute
                       - (IF SingleOverCapacity THEN CapacityPenalty ELSE 0))
        /\ outcome.conflicts = outcome.timetable[1].conflicts
        /\ \A k \in DOMAIN outcome.conflicts :
              outcome.conflicts[k].type \in {"WORKLOAD_EXCEEDED", "CAPACITY_EXCEEDED"}
        /\ outcome.conflicts = <<>> <=> (SingleOverage = 0 /\ ~SingleOverCapacity)

C4_Witness ==
    /\ Resolved
    /\ SingleCourseCase
    /\ Len(outcome.timetable[1].slots) = 1
    /\ outcome.conflicts = <<>>
    /\ outcome.timetable[1].fitness = BaseFitness

-----------------------------------------------------------------------------
(* C5: the loop goes on to selection, crossover and mutation only while the *)
(* best of the evaluated, sorted generation is below conflictThreshold; at  *)
(* the first generation whose best reaches it the loop stops, no offspring  *)
(* having been bred for that generation, and the timetable returned is that *)
(* best individual's.                                                       *)

LoopEnded == pc \in {"format", "log", "return", "done"}

C5_StopsAtThreshold ==
    /\ pc = "breed" =>
          /\ population[1].fitness < conflictThreshold
          /\ stats.maxSeen < conflictThreshold
    /\ (pc = "evaluate" \/ stats.stop = "exhausted") =>
          stats.maxSeen < conflictThreshold
    /\ stats.stop = "converged" =>
          /\ LoopEnded
          /\ generation < generations
          /\ population[1].fitness >= conflictThreshold
          /\ population[1].fitness = MaxFitness(population)
          /\ population[1].fitness = stats.maxSeen
          /\ stats.evaluations = populationSize * (generation + 1)
          /\ stats.selections = 2 * Brood * generation
          /\ stats.crossovers = Brood * generation
          /\ stats.mutations = Brood * generation
          /\ timetable # <<>> =>
                timetable[1] = formatTimetable(population[1], snapshot, params)
          /\ pc = "done" =>
                outcome.kind = "resolved" /\ outcome.timetable = timetable

C5_Witness ==
    /\ Resolved
    /\ stats.stop = "converged"
    /\ generation = 1
    /\ stats.selections = 2 * Brood
    /\ outcome.timetable[1].fitness >= conflictThreshold

-----------------------------------------------------------------------------
(* C6: when every generation passes with no best reaching the threshold,    *)
(* no error is raised and the run resolves; the fitness of the individual   *)
(* returned is the maximum over every individual evaluated in the run, and  *)
(* the timetable carries the conflicts calculateFitness finds in it.        *)

C6_ExhaustedReturnsBest ==
    stats.stop = "exhausted" =>
        /\ LoopEnded
        /\ generation = generations
        /\ caught = <<>>
        /\ stats.evaluations = populationSize * generations
        /\ population[1].fitness = stats.maxSeen
        /\ population[1].fitness < conflictThreshold
        /\ timetable # <<>> =>
              /\ timetable[1].fitness = stats.maxSeen
              /\ timetable[1].conflicts =
                   calculateFitness(NewIndividual(population[1].slots),
                                    snapshot).individual.conflicts
              /\ timetable[1].conflicts # <<>>
              /\ Len(timetable[1].slots) = Len(population[1].slots)
              /\ \A i \in DOMAIN timetable[1].slots :
                    /\ timetable[1].slots[i].courseId = population[1].slots[i].courseId
                    /\ timetable[1].slots[i].roomId = population[1].slots[i].roomId
                    /\ timetable[1].slots[i].dayOfWeek = population[1].slots[i].dayOfWeek
                    /\ timetable[1].slots[i].startTime = population[1].slots[i].startTime
        /\ pc = "done" =>
              /\ outcome.kind = "resolved"
              /\ outcome.timetable = timetable
              /\ outcome.conflicts = timetable[1].conflicts

C6_Witness ==
    /\ Resolved
    /\ stats.stop = "exhausted"
    /\ generation = generations
    /\ outcome.timetable[1].fitness = stats.maxSeen
    /\ outcome.conflicts # <<>>
    /\ \E i \in DOMAIN population : population[i].slots # population[1].slots

-----------------------------------------------------------------------------
(* C7: in every population (the initial one, and elites and offspring of    *)
(* every later generation) every individual holds exactly one gene for each *)
(* course whose teacher is among the teachers, and no other gene.           *)

GenesOf(individual, courseId) ==
    { k \in DOMAIN individual.slots : individual.slots[k].courseId = courseId }

OneGenePerCourse(individual) ==
    /\ \A c \in DOMAIN snapshot.courses :
          Cardinality(GenesOf(individual, snapshot.courses[c].id)) =
              IF \E t \in DOMAIN snapshot.teachers :
                    snapshot.teachers[t].id = snapshot.courses[c].teacherId
              THEN 1 ELSE 0
    /\ \A k \in DOMAIN individual.slots :
          \E c \in DOMAIN snapshot.courses :
              snapshot.courses[c].id = individual.slots[k].courseId

C7_OneGenePerCourse ==
    /\ Len(population) \in {0, populationSize}
    /\ \A i \in DOMAIN population : OneGenePerCourse(population[i])

C7_Witness ==
    /\ pc = "evaluate"
    /\ generation = 1
    /\ Len(snapshot.courses) = 2
    /\ \E i \in DOMAIN population :
          /\ i > eliteCount
          /\ Len(population[i].slots) = 2
          /\ population[i].slots # population[1].slots


-----------------------------------------------------------------------------
(* C8: calculateFitness returns max(0, 1.0 - 0.3 T - 0.4 R - 0.2 E - 0.1 O  *)
(* - 0.1 C) and records exactly T + R + E + W + C conflicts: T, R the       *)
(* unordered gene pairs sharing teacher, resp. room, on one day with        *)
(* overlapping times, E the (gene, committed entry) combinations with the   *)
(* same teacher and day and overlapping times, W the overloaded teachers    *)
(* and O their overage, C the genes whose course has more students than the *)
(* room has seats.                                                          *)
C8_FitnessFormula ==
    Evaluated =>
      LET slots == evalIn.individual.slots
          d == evalIn.data
          T == Cardinality(TeacherPairs(slots))
          R == Cardinality(RoomPairs(slots))
          E == Cardinality(ExistingHits(slots, d.existingTimetables))
          W == Cardinality(Overloaded(slots, d.teachers))
          O == OverageMinutes(slots, d.teachers)
          C == Cardinality(OverCapacity(slots, d.courses, d.rooms))
          found == evalOut.individual.conflicts
      IN  /\ evalOut.fitness =
               Max(0, 600 - 180 * T - 240 * R - 120 * E - O - 60 * C)
          /\ Len(found) = T + R + E + W + C
          /\ Cardinality(ConflictsOfType(found, "TEACHER_CONFLICT")) = T
          /\ Cardinality(ConflictsOfType(found, "ROOM_CONFLICT")) = R
          /\ Cardinality(ConflictsOfType(found, "EXISTING_CONFLICT")) = E
          /\ Cardinality(ConflictsOfType(found, "WORKLOAD_EXCEEDED")) = W
          /\ Cardinality(ConflictsOfType(found, "CAPACITY_EXCEEDED")) = C

\* An evaluation in which every kind of conflict occurs, one pair counting
\* both as a teacher and as a room conflict.
C8_Witness ==
    /\ Evaluated
    /\ LET slots == evalIn.individual.slots
           found == evalOut.individual.conflicts
       IN  /\ TeacherPairs(slots) \cap RoomPairs(slots) # {}
           /\ \A type \in {"TEACHER_CONFLICT", "ROOM_CONFLICT",
                           "EXISTING_CONFLICT", "WORKLOAD_EXCEEDED",
                           "CAPACITY_EXCEEDED"} :
                ConflictsOfType(found, type) # {}

-----------------------------------------------------------------------------
(* C9: the fitness calculateFitness returns lies in [0, 1], however large   *)
(* the penalties, and is strictly positive for an individual on which no    *)
(* conflict was recorded.                                                   *)
C9_FitnessRange ==
    Evaluated =>
      /\ evalOut.fitness >= 0
      /\ evalOut.fitness <= BaseFitness
      /\ evalOut.individual.conflicts = <<>> => evalOut.fitness > 0

\* Penalties beyond 1.0, a workload penalty among them, clamped to 0.
C9_Witness ==
    /\ Evaluated
    /\ evalOut.fitness = 0
    /\ ConflictsOfType(evalOut.individual.conflicts, "WORKLOAD_EXCEEDED") # {}
    /\ LET slots == evalIn.individual.slots
       IN  180 * Cardinality(TeacherPairs(slots))
             + 240 * Cardinality(RoomPairs(slots))
             + OverageMinutes(slots, evalIn.data.teachers) > 600

-----------------------------------------------------------------------------
(* C10: adding to a conflict-free individual a gene with the teacher, room  *)
(* and day of one of its genes and an overlapping time gives a fitness      *)
(* strictly below 1.0 and at least one recorded conflict.                   *)

RemoveAt(seq, k) == [i \in 1..(Len(seq) - 1) |-> IF i < k THEN seq[i] ELSE seq[i + 1]]

Duplicates(a, b) ==
    /\ a.teacherId = b.teacherId
    /\ a.roomId = b.roomId
    /\ a.dayOfWeek = b.dayOfWeek
    /\ SameTime(a, b)

\* Gene k was added to an individual that had no conflict without it, and
\* duplicates another gene.
AddedDuplicate(slots, data, k) ==
    /\ \E j \in DOMAIN slots : j # k /\ Duplicates(slots[j], slots[k])
    /\ LET before == calculateFitness(NewIndividual(RemoveAt(slots, k)), data)
       IN  before.individual.conflicts = <<>> /\ before.fitness = BaseFitness

C10_DuplicateLowersFitness ==
    Evaluated =>
      \A k \in DOMAIN evalIn.individual.slots :
         AddedDuplicate(evalIn.individual.slots, evalIn.data, k) =>
           /\ evalOut.fitness < BaseFitness
           /\ Len(evalOut.individual.conflicts) >= 1

C10_Witness ==
    /\ Evaluated
    /\ Len(evalIn.individual.slots) = 3
    /\ AddedDuplicate(evalIn.individual.slots, evalIn.data, 3)
    /\ evalOut.fitness < BaseFitness

-----------------------------------------------------------------------------
(* C11: timeOverlap(s1, e1, s2, e2) is true exactly when s1 is before e2    *)
(* and s2 is before e1: ranges that touch do not overlap, a range contained *)
(* in or straddling the other does, and swapping the two ranges gives the   *)
(* same result.                                                             *)

\* Time a is earlier in the day than time b.
Before(a, b) == a[1] < b[1] \/ (a[1] = b[1] /\ a[2] < b[2])

NotAfter(a, b) == a = b \/ Before(a, b)

C11_TimeOverlap ==
    Returned("timeOverlap") =>
        LET s1 == evalIn.start1
            e1 == evalIn.end1
            s2 == evalIn.start2
            e2 == evalIn.end2
            result == evalOut[1]
            proper == Before(s1, e1) /\ Before(s2, e2)
        IN  /\ result <=> (Before(s1, e2) /\ Before(s2, e1))
            /\ (proper /\ (e1 = s2 \/ e2 = s1)) => ~result
            /\ (proper /\ NotAfter(s2, s1) /\ NotAfter(e1, e2)) => result
            /\ (proper /\ Before(s1, s2) /\ Before(s2, e1) /\ Before(e1, e2)) => result
            /\ result = timeOverlap(s2, e2, s1, e1)

C11_Witness ==
    /\ Returned("timeOverlap")
    /\ evalIn.start1 = <<9, 0>> /\ evalIn.end1 = <<10, 30>>
    /\ evalIn.start2 = <<10, 30>> /\ evalIn.end2 = <<11, 30>>
    /\ evalOut = <<FALSE>>

-----------------------------------------------------------------------------
(* C12: calculateTeacherWorkloads returns one entry for every teacher of    *)
(* the list and no other entry; the entry is the sum of endTime - startTime *)
(* over that teacher's genes (in minutes here: 90 for 1.5 hours), 0 for a   *)
(* teacher with no gene; a gene of a teacher outside the list adds to no    *)
(* entry.                                                                   *)

\* Minutes from time a to time b of one day.
MinutesBetween(a, b) == (b[1] - a[1]) * 60 + (b[2] - a[2])

RECURSIVE MinutesTaught(_, _)
MinutesTaught(slots, id) ==
    IF slots = <<>> THEN 0
    ELSE (IF Head(slots).teacherId = id
          THEN MinutesBetween(Head(slots).startTime, Head(slots).endTime)
          ELSE 0)
         + MinutesTaught(Tail(slots), id)

RECURSIVE TotalMinutes(_, _)
TotalMinutes(workloads, ids) ==
    IF ids = {} THEN 0
    ELSE LET id == CHOOSE x \in ids : TRUE
         IN  workloads[id] + TotalMinutes(workloads, ids \ {id})

C12_TeacherWorkloads ==
    Returned("calculateTeacherWorkloads") =>
        LET workloads == evalOut[1]
            listed == { evalIn.teachers[k].id : k \in DOMAIN evalIn.teachers }
            inList == SelectSeq(evalIn.slots, LAMBDA g : g.teacherId \in listed)
        IN  /\ DOMAIN workloads = listed
            /\ \A id \in listed : workloads[id] = MinutesTaught(evalIn.slots, id)
            /\ \A id \in listed :
                  (\A i \in DOMAIN evalIn.slots : evalIn.slots[i].teacherId # id)
                      => workloads[id] = 0
            /\ workloads = calculateTeacherWorkloads(inList, evalIn.teachers)
            /\ TotalMinutes(workloads, listed) =
                  90 * Cardinality({ i \in DOMAIN inList :
                                       inList[i].startTime # <<13, 0>> })
                  + 60 * Cardinality({ i \in DOMAIN inList :
                                         inList[i].startTime = <<13, 0>> })

C12_Witness ==
    /\ Returned("calculateTeacherWorkloads")
    /\ evalIn.teachers = <<Teacher("t1", 40), Teacher("t2", 35)>>
    /\ evalIn.slots =
          << [teacherId |-> "t1", startTime |-> <<9, 0>>, endTime |-> <<10, 30>>],
             [teacherId |-> "t1", startTime |-> <<11, 0>>, endTime |-> <<12, 30>>],
             [teacherId |-> "t3", startTime |-> <<9, 0>>, endTime |-> <<10, 30>>] >>
    /\ evalOut[1] = [id \in {"t1", "t2"} |-> IF id = "t1" THEN 180 ELSE 0]

-----------------------------------------------------------------------------
(* C13: evaluations of the same genes against the same snapshot, in any     *)
(* order and among evaluations of other individuals, return the same        *)
(* fitness and the same conflicts, and an evaluation changes nothing but    *)
(* the conflicts field of the individual evaluated: genes, fitness field,   *)
(* the other individuals and the snapshot stay as they were.                *)

EvaluatedIndices == { evalOut[k].index : k \in DOMAIN evalOut }

\* The last call made on individual i.
LastEvaluation(i) ==
    evalOut[CHOOSE k \in DOMAIN evalOut :
              /\ evalOut[k].index = i
              /\ \A m \in DOMAIN evalOut : evalOut[m].index = i => m <= k]

C13_EvaluatorDeterministic ==
    pc = "evaluations" =>
        /\ \A a, b \in DOMAIN evalOut :
              evalOut[a].slots = evalOut[b].slots =>
                  /\ evalOut[a].fitness = evalOut[b].fitness
                  /\ evalOut[a].conflicts = evalOut[b].conflicts
        /\ snapshot = evalIn.snapshot
        /\ \A i \in DOMAIN population :
              /\ population[i].slots = evalIn.population[i].slots
              /\ population[i].fitness = evalIn.population[i].fitness
              /\ i \notin EvaluatedIndices => population[i] = evalIn.population[i]
              /\ i \in EvaluatedIndices =>
                    population[i].conflicts = LastEvaluation(i).conflicts

C13_Witness ==
    /\ pc = "evaluations"
    /\ Len(evalOut) = 3
    /\ evalOut[1].index = 1 /\ evalOut[2].index = 2 /\ evalOut[3].index = 1
    /\ evalOut[1].conflicts # <<>>
    /\ evalOut[3].conflicts = evalOut[1].conflicts
    /\ evalOut[2].slots # evalOut[1].slots
    /\ evalOut[2].fitness # evalOut[1].fitness

-----------------------------------------------------------------------------
(* C14: two runs on the same snapshot, with everything the caller can fix   *)
(* being the same, end with the same fitness and the same set of conflicts. *)

ConflictSet(conflicts) == { conflicts[k] : k \in DOMAIN conflicts }

C14_RunsAgree ==
    (pc = "done" /\ evalOut # <<>>) =>
        /\ outcome.kind = evalOut[1].kind
        /\ outcome.kind = "resolved" =>
              /\ outcome.timetable[1].fitness = evalOut[1].timetable[1].fitness
              /\ ConflictSet(outcome.conflicts) = ConflictSet(evalOut[1].conflicts)

-----------------------------------------------------------------------------
(* C15: the child of crossover has as many genes as the longer parent (5    *)
(* for parents of 5 and 3); where both parents have a gene the child's gene *)
(* is one of the two, where only one parent has a gene the child has that   *)
(* gene.                                                                    *)

C15_CrossoverLength ==
    Returned("crossover") =>
        LET p1 == evalIn.parent1.slots
            p2 == evalIn.parent2.slots
            child == evalOut[1].slots
        IN  /\ Len(child) >= Len(p1)
            /\ Len(child) >= Len(p2)
            /\ Len(child) = Len(p1) \/ Len(child) = Len(p2)
            /\ \A i \in DOMAIN child :
                  /\ (i <= Len(p1) /\ i <= Len(p2)) => child[i] \in {p1[i], p2[i]}
                  /\ (i <= Len(p1) /\ i > Len(p2)) => child[i] = p1[i]
                  /\ (i > Len(p1) /\ i <= Len(p2)) => child[i] = p2[i]

C15_Witness ==
    /\ Returned("crossover")
    /\ Len(evalIn.parent1.slots) = 5
    /\ Len(evalIn.parent2.slots) = 3
    /\ Len(evalOut[1].slots) = 5
    /\ evalOut[1].slots[1] = evalIn.parent2.slots[1]
    /\ evalOut[1].slots[2] = evalIn.parent1.slots[2]
    /\ evalOut[1].slots[5] = evalIn.parent1.slots[5]

-----------------------------------------------------------------------------
(* C16: tournamentSelection draws 3 individuals of the population, the same *)
(* one possibly more than once, and returns a drawn individual of maximal   *)
(* fitness among the drawn; of several with that fitness, the one drawn     *)
(* first.                                                                   *)

C16_TournamentBest ==
    Returned("tournamentSelection") =>
        LET pop == evalIn.population
            draws == evalIn.draws
            winner == evalOut[1]
            best == { k \in DOMAIN draws :
                        \A j \in DOMAIN draws :
                            pop[draws[j]].fitness <= pop[draws[k]].fitness }
            first == CHOOSE k \in best : \A j \in best : k <= j
        IN  /\ DOMAIN draws = 1..3
            /\ \E k \in DOMAIN draws : winner = pop[draws[k]]
            /\ \A k \in DOMAIN draws : pop[draws[k]].fitness <= winner.fitness
            /\ winner = pop[draws[first]]

C16_Witness ==
    /\ Returned("tournamentSelection")
    /\ Len(evalIn.population) = 4
    /\ evalIn.draws = <<3, 1, 4>>
    /\ evalIn.population[3].fitness = 480
    /\ evalIn.population[1].fitness = 600
    /\ evalIn.population[4].fitness = 600
    /\ evalOut[1] = evalIn.population[1]

-----------------------------------------------------------------------------
(* C17: when mutate returns, the individual returned is a new one with as   *)
(* many genes as the input; its gene i equals the input's gene i or is an   *)
(* assignment for the same course with that course's teacher, a room of the *)
(* snapshot, a day and a period of the catalogue; the input's array and     *)
(* every gene object that existed before the call (those of the parents the *)
(* input shares) are as they were.                                          *)

\* The genes an array of addresses stands for.
Deref(objects, array) == [i \in DOMAIN array |-> objects[array[i]]]

FreshFor(gene, old, data) ==
    \E c \in DOMAIN data.courses, r \in DOMAIN data.rooms,
       d \in DOMAIN days, p \in DOMAIN timeSlots :
        /\ data.courses[c].id = old.courseId
        /\ \E t \in DOMAIN data.teachers :
              data.teachers[t].id = data.courses[c].teacherId
        /\ gene = [courseId |-> old.courseId,
                   teacherId |-> data.courses[c].teacherId,
                   roomId |-> data.rooms[r].id,
                   dayOfWeek |-> days[d],
                   startTime |-> timeSlots[p].start,
                   endTime |-> timeSlots[p].end,
                   creditHours |-> data.courses[c].creditHours]

C17_MutateFrame ==
    (Returned("mutate") /\ ~evalOut[1].fault) =>
        LET before == Deref(evalIn.objects, evalIn.slots)
            after == Deref(evalOut[1].objects, evalOut[1].slots)
        IN  /\ Len(after) = Len(before)
            /\ \A i \in DOMAIN after :
                  after[i] = before[i] \/ FreshFor(after[i], before[i], evalIn.data)
            /\ \A i \in DOMAIN after : ~evalIn.hit[i] => after[i] = before[i]
            /\ evalOut[1].input = evalIn.slots
            /\ \A a \in DOMAIN evalIn.objects :
                  evalOut[1].objects[a] = evalIn.objects[a]
            /\ \A i \in DOMAIN evalOut[1].slots :
                  evalOut[1].slots[i] \notin DOMAIN evalIn.objects
            /\ after = mutate(NewIndividual(before), evalIn.data, evalIn.hit,
                              evalIn.draws).individual.slots

C17_Witness ==
    /\ Returned("mutate")
    /\ ~evalOut[1].fault
    /\ evalIn.slots = <<1, 4>>
    /\ evalIn.hit = <<TRUE, FALSE>>
    /\ Len(evalIn.data.teachers) = 2
    /\ LET after == Deref(evalOut[1].objects, evalOut[1].slots)
       IN  /\ after[1] # ParentGenes[1]
           /\ after[1].roomId = "r2"
           /\ after[2] = ParentGenes[4]
    /\ Deref(evalOut[1].objects, evalOut[1].input) = <<ParentGenes[1], ParentGenes[4]>>

-----------------------------------------------------------------------------
(* C18: when mutate selects a gene whose course, or whose course's teacher, *)
(* is not found in the snapshot, the call fails with an error: it never     *)
(* returns with that gene kept as it was.                                   *)

\* Genes selected for mutation whose course or teacher cannot be resolved.
UnresolvedHits ==
    { i \in DOMAIN evalIn.slots :
        /\ evalIn.hit[i]
        /\ LET gene == evalIn.objects[evalIn.slots[i]]
           IN  \/ \A c \in DOMAIN evalIn.data.courses :
                    evalIn.data.courses[c].id # gene.courseId
               \/ \E c \in DOMAIN evalIn.data.courses :
                    /\ evalIn.data.courses[c].id = gene.courseId
                    /\ \A t \in DOMAIN evalIn.data.teachers :
                          evalIn.data.teachers[t].id # evalIn.data.courses[c].teacherId }

C18_UnresolvedMutationFails ==
    (Returned("mutate") /\ UnresolvedHits # {}) => evalOut[1].fault

-----------------------------------------------------------------------------
(* C19: every population that is evaluated has populationSize individuals   *)
(* (50 in the code); a generation that does not converge is followed by a   *)
(* population of the same size that starts with the top fifth (10) of the   *)
(* sorted population, unchanged, and goes on with offspring (40), each new, *)
(* made of genes that are a gene of the current population at the same      *)
(* index or a fresh assignment for the same course, after two selections,   *)
(* one crossover and one mutation per offspring.                            *)

TopFifth == populationSize \div 5

BreedStep == pc = "breed" /\ pc' \in {"evaluate", "format"}

C19_NextPopulation ==
    [][ /\ pc = "evaluate" => Len(population) = populationSize
        /\ BreedStep =>
              /\ Len(population') = populationSize
              /\ \A i \in 1..TopFifth :
                    /\ population'[i] = population[i]
                    /\ \A j \in DOMAIN population :
                          j > TopFifth => population[j].fitness <= population[i].fitness
              /\ \A j \in (TopFifth + 1)..populationSize :
                    /\ population'[j].fitness = 0
                    /\ population'[j].conflicts = <<>>
                    /\ \A g \in DOMAIN population'[j].slots :
                          \E k \in DOMAIN population :
                              /\ g \in DOMAIN population[k].slots
                              /\ \/ population'[j].slots[g] = population[k].slots[g]
                                 \/ FreshFor(population'[j].slots[g],
                                             population[k].slots[g], snapshot)
              /\ generation' = generation + 1
              /\ stats'.selections = stats.selections + 2 * (populationSize - TopFifth)
              /\ stats'.crossovers = stats.crossovers + (populationSize - TopFifth)
              /\ stats'.mutations = stats.mutations + (populationSize - TopFifth)
      ]_vars

C19_Witness ==
    /\ pc = "evaluate"
    /\ generation = 1
    /\ Len(population) = populationSize
    /\ population[1].conflicts # <<>>
    /\ population[1].fitness > 0
    /\ \E j \in 2..populationSize :
          /\ population[j].fitness = 0
          /\ population[j].slots # population[1].slots
          /\ Len(population[j].slots) = Len(population[1].slots)

-----------------------------------------------------------------------------
(* C20: in every turn of the loop, the sort, the convergence test and the   *)
(* breeding come after the evaluation of every individual of that turn has  *)
(* completed, and every parent selection can return carries the fitness     *)
(* calculateFitness returned for it in that turn.                           *)

EvaluatedThisTurn(i) ==
    /\ evalIn[i].status = "resolved"
    /\ evalIn[i].generation = generation
    /\ evalOut[i] # <<>>
    /\ evalOut[i][1].fitness = evalIn[i].fitness
    /\ evalIn[i].fitness =
          calculateFitness(NewIndividual(evalOut[i][1].slots), snapshot).fitness

C20_EvaluationsFirst ==
    /\ (pc = "breed" \/ (pc = "format" /\ stats.stop = "")) =>
          /\ \A i \in 1..populationSize : EvaluatedThisTurn(i)
          /\ \A k \in DOMAIN population :
                \E i \in 1..populationSize : population[k] = evalOut[i][1]
          /\ \A k \in 1..(Len(population) - 1) :
                population[k].fitness >= population[k + 1].fitness
    /\ pc = "breed" =>
          \A parent \in Parents(population) :
              \E i \in 1..populationSize :
                  EvaluatedThisTurn(i) /\ parent = evalOut[i][1]

C20_Witness ==
    /\ pc = "breed"
    /\ generation = 1
    /\ \A i \in 1..populationSize : EvaluatedThisTurn(i)
    /\ \E i, j \in 1..populationSize : evalIn[i].fitness # evalIn[j].fitness

-----------------------------------------------------------------------------
(* C21: a run whose caller's deadline has passed at a generation boundary   *)
(* stops there: it evaluates no further generation, returns the best        *)
(* individual evaluated so far, and its one log record has the status       *)
(* CANCELLED.                                                               *)

\* The loop went through the boundary the deadline fell on without having
\* converged: it ran out its budget, so it passed every boundary.
PassedDeadline == evalIn # <<>> /\ stats.stop = "exhausted"

C21_CancelledAtBoundary ==
    (pc = "done" /\ PassedDeadline) =>
        /\ Resolved
        /\ stats.evaluations = evalIn[1] * populationSize
        /\ Len(aiLog) = 1
        /\ aiLog[1].data.status = "CANCELLED"

-----------------------------------------------------------------------------
(* C22: the ROOM_CHANGE suggestions answer, one to one and in order, the    *)
(* CAPACITY_EXCEEDED conflicts for which some room of the list is a         *)
(* CLASSROOM with capacity >= the course's maxStudents; each proposes, for  *)
(* the gene of its conflict, the first such room of the list.  A            *)
(* CAPACITY_EXCEEDED conflict for which no room qualifies gets none.        *)

Qualifies(room, course) ==
    room.roomType = "CLASSROOM" /\ room.capacity >= course.maxStudents

\* The position of the first qualifying room of the list, in a set: empty
\* when no room qualifies.
FirstQualifying(rooms, course) ==
    { r \in DOMAIN rooms :
        /\ Qualifies(rooms[r], course)
        /\ \A q \in 1..(r - 1) : ~Qualifies(rooms[q], course) }

Servable(conflict) ==
    /\ conflict.type = "CAPACITY_EXCEEDED"
    /\ FirstQualifying(evalIn.data.rooms, conflict.course) # {}

IsRoomChange(suggestion) == suggestion.type = "ROOM_CHANGE"

C22_RoomChangeSuggestions ==
    Returned("generateSuggestions") =>
        LET served == SelectSeq(evalIn.individual.conflicts, Servable)
            changes == SelectSeq(evalOut[1], IsRoomChange)
        IN  /\ Len(changes) = Len(served)
            /\ \A k \in DOMAIN changes :
                  /\ changes[k].slot = served[k].slot
                  /\ \E r \in FirstQualifying(evalIn.data.rooms, served[k].course) :
                         changes[k].suggestedRoom = evalIn.data.rooms[r]

\* Two genes are over capacity; for the first a later room of the list is
\* the first that qualifies and another follows it, for the second none does.
C22_Witness ==
    /\ Returned("generateSuggestions")
    /\ Len(evalIn.data.rooms) = 3
    /\ Cardinality(ConflictsOfType(evalIn.individual.conflicts,
                                   "CAPACITY_EXCEEDED")) = 2
    /\ Len(SelectSeq(evalOut[1], IsRoomChange)) = 1
    /\ SelectSeq(evalOut[1], IsRoomChange)[1].suggestedRoom = evalIn.data.rooms[2]
    /\ Qualifies(evalIn.data.rooms[3], SuggestionCourses[1])
    /\ SelectSeq(evalOut[1], IsRoomChange)[1].slot.courseId = "c1"

-----------------------------------------------------------------------------
(* C23: the TIME_CHANGE suggestions answer, one to one and in order, the    *)
(* TEACHER_CONFLICT and ROOM_CONFLICT conflicts; each is for the first gene *)
(* of its pair, and its alternatives are the first (at most 3) free         *)
(* combinations of the scan of the catalog, day by day and period by        *)
(* period.  The rooms play no part in which combination is free.            *)

\* The combinations (day, period) of the catalog and their place in the scan.
Combinations == (DOMAIN days) \X (DOMAIN timeSlots)

Rank(c) == (c[1] - 1) * Len(timeSlots) + c[2]

Period(p) == [startTime |-> timeSlots[p].start, endTime |-> timeSlots[p].end]

\* The positions of the genes other than this gene: every gene that differs
\* from it, and its equals when it occurs more than once.
OtherGenes(slot, slots) ==
    { i \in DOMAIN slots :
        \/ slots[i] # slot
        \/ Cardinality({ j \in DOMAIN slots : slots[j] = slot }) > 1 }

\* Some gene among these is of the teacher of the gene and holds a time of
\* day d that has a minute in common with period p.
Taken(c, slot, slots, among) ==
    \E i \in among :
        /\ slots[i].teacherId = slot.teacherId
        /\ slots[i].dayOfWeek = days[c[1]]
        /\ SameTime(slots[i], Period(c[2]))

\* The alternatives are the first three free combinations, in scan order,
\* a combination being free when no gene among these takes it.
FirstFree(alternatives, slot, slots, among) ==
    LET free == { c \in Combinations : ~Taken(c, slot, slots, among) }
        first == { c \in free :
                     Cardinality({ b \in free : Rank(b) < Rank(c) }) < 3 }
    IN  /\ Len(alternatives) = Cardinality(first)
        /\ \A c \in first :
              alternatives[Cardinality({ b \in free : Rank(b) < Rank(c) }) + 1]
                = [dayOfWeek |-> days[c[1]],
                   startTime |-> timeSlots[c[2]].start,
                   endTime   |-> timeSlots[c[2]].end]

IsClash(conflict) == conflict.type \in {"TEACHER_CONFLICT", "ROOM_CONFLICT"}

IsTimeChange(suggestion) == suggestion.type = "TIME_CHANGE"

\* The claim as stated: a combination is excluded exactly when it overlaps
\* another gene of the same teacher.
C23_AlternativesAvoidOtherGenes ==
    Returned("generateSuggestions") =>
        LET slots == evalIn.individual.slots
            clashes == SelectSeq(evalIn.individual.conflicts, IsClash)
            changes == SelectSeq(evalOut[1], IsTimeChange)
        IN  /\ Len(changes) = Len(clashes)
            /\ \A k \in DOMAIN changes :
                  /\ changes[k].slot = clashes[k].slot1
                  /\ FirstFree(changes[k].alternatives, clashes[k].slot1, slots,
                               OtherGenes(clashes[k].slot1, slots))

\* C23 as amended: a combination is excluded exactly when it overlaps a gene
\* of the same teacher, the gene of the suggestion included.
C23_AlternativesAvoidTeacher ==
    Returned("generateSuggestions") =>
        LET slots == evalIn.individual.slots
            clashes == SelectSeq(evalIn.individual.conflicts, IsClash)
            changes == SelectSeq(evalOut[1], IsTimeChange)
        IN  /\ Len(changes) = Len(clashes)
            /\ \A k \in DOMAIN changes :
                  /\ changes[k].slot = clashes[k].slot1
                  /\ FirstFree(changes[k].alternatives, clashes[k].slot1, slots,
                               DOMAIN slots)

\* A gene of t1 shares the room and the first period with a gene of t2, and
\* no other gene of t1 is there: the first alternative is the second period,
\* in which a further gene of t2 holds the room.
C23_Witness ==
    /\ Returned("generateSuggestions")
    /\ evalIn.data.rooms = TimeSuggestionRooms
    /\ Len(evalIn.individual.slots) = 3
    /\ evalIn.individual.slots[1].teacherId = "t1"
    /\ evalIn.individual.slots[2].teacherId = "t2"
    /\ evalIn.individual.slots[3].teacherId = "t2"
    /\ evalIn.individual.slots[1].startTime = timeSlots[1].start
    /\ evalIn.individual.slots[2].startTime = timeSlots[1].start
    /\ evalIn.individual.slots[3].startTime = timeSlots[2].start
    /\ Len(SelectSeq(evalOut[1], IsTimeChange)) = 1
    /\ SelectSeq(evalOut[1], IsTimeChange)[1].slot = evalIn.individual.slots[1]
    /\ Len(SelectSeq(evalOut[1], IsTimeChange)[1].alternatives) = 3
    /\ SelectSeq(evalOut[1], IsTimeChange)[1].alternatives[1].startTime
         = timeSlots[2].start

-----------------------------------------------------------------------------
(* C24: however the loop ended, the artifact lists the genes of the         *)
(* individual returned, one to one and in order, each joined with its       *)
(* course, teacher and room of the snapshot; its conflicts and its fitness  *)
(* are those calculateFitness yields for these genes against the snapshot,  *)
(* one conflict for each clash there is by definition, and the result of    *)
(* the call carries the same conflicts.                                     *)

C24_ArtifactReportsConflicts ==
    timetable # <<>> =>
        LET best == population[1]
            r == calculateFitness(NewIndividual(best.slots), snapshot)
            artifact == timetable[1]
        IN  /\ stats.stop \in {"converged", "exhausted"}
            /\ Len(artifact.slots) = Len(best.slots)
            /\ \A i \in DOMAIN best.slots :
                  /\ artifact.slots[i].courseId = best.slots[i].courseId
                  /\ artifact.slots[i].teacherId = best.slots[i].teacherId
                  /\ artifact.slots[i].roomId = best.slots[i].roomId
                  /\ artifact.slots[i].dayOfWeek = best.slots[i].dayOfWeek
                  /\ artifact.slots[i].startTime = best.slots[i].startTime
                  /\ artifact.slots[i].endTime = best.slots[i].endTime
                  /\ Len(artifact.slots[i].course) = 1
                  /\ artifact.slots[i].course[1].id = best.slots[i].courseId
                  /\ Len(artifact.slots[i].teacher) = 1
                  /\ artifact.slots[i].teacher[1].id = best.slots[i].teacherId
                  /\ Len(artifact.slots[i].room) = 1
                  /\ artifact.slots[i].room[1].id = best.slots[i].roomId
            /\ artifact.conflicts = r.individual.conflicts
            /\ artifact.fitness = r.fitness
            /\ Len(artifact.conflicts) =
                  Cardinality(TeacherPairs(best.slots))
                    + Cardinality(RoomPairs(best.slots))
                    + Cardinality(ExistingHits(best.slots, snapshot.existingTimetables))
                    + Cardinality(Overloaded(best.slots, snapshot.teachers))
                    + Cardinality(OverCapacity(best.slots, snapshot.courses,
                                               snapshot.rooms))
            /\ Resolved => outcome.conflicts = artifact.conflicts

\* A run that used up its budget returns an artifact with conflicts, while
\* the population it ended with holds offspring that were never evaluated
\* and would have conflicts of their own.
C24_Witness ==
    /\ Resolved
    /\ stats.stop = "exhausted"
    /\ outcome.timetable[1].conflicts # <<>>
    /\ outcome.timetable[1].fitness > 0
    /\ \E i \in DOMAIN population :
          /\ population[i].fitness = 0
          /\ population[i].conflicts = <<>>
          /\ calculateFitness(population[i], snapshot).individual.conflicts # <<>>

-----------------------------------------------------------------------------
(* C25: every gene of every individual of every population is on a day of   *)
(* 1..5, holds one of the five periods of the catalog and is in a room of   *)
(* the snapshot; no two periods of the catalog overlap, so two genes of an  *)
(* individual that are on the same day overlap exactly when they hold the   *)
(* same period.                                                             *)

\* The periods of the catalog this gene holds (one, or none).
PeriodsOf(gene) ==
    { p \in DOMAIN timeSlots :
        timeSlots[p].start = gene.startTime /\ timeSlots[p].end = gene.endTime }

\* Every outcome of the three draws of generateRandomSlot on two rooms.
AllDraws == [day : DOMAIN days, timeSlot : DOMAIN timeSlots, room : {1, 2}]

C25_GenesFromCatalog ==
    /\ \A p, q \in DOMAIN timeSlots :
          timeOverlap(timeSlots[p].start, timeSlots[p].end,
                      timeSlots[q].start, timeSlots[q].end) <=> p = q
    /\ \A draw \in AllDraws :
          LET gene == generateRandomSlot(course1, teacher1, <<room1, room2>>, draw)
          IN  /\ gene.dayOfWeek \in 1..5
              /\ PeriodsOf(gene) = {draw.timeSlot}
              /\ gene.roomId = <<room1, room2>>[draw.room].id
    /\ \A i \in DOMAIN population :
          \A k \in DOMAIN population[i].slots :
              LET gene == population[i].slots[k]
              IN  /\ gene.dayOfWeek \in 1..5
                  /\ Cardinality(PeriodsOf(gene)) = 1
                  /\ \E r \in DOMAIN snapshot.rooms :
                         snapshot.rooms[r].id = gene.roomId
                  /\ \A j \in DOMAIN population[i].slots :
                         population[i].slots[j].dayOfWeek = gene.dayOfWeek =>
                             (timeOverlap(gene.startTime, gene.endTime,
                                          population[i].slots[j].startTime,
                                          population[i].slots[j].endTime)
                                <=> PeriodsOf(population[i].slots[j]) = PeriodsOf(gene))

\* The second generation holds an offspring with two genes in one period
\* and another with two genes in different periods.
C25_Witness ==
    /\ pc = "evaluate"
    /\ generation = 1
    /\ \E i, j \in (eliteCount + 1)..Len(population) :
          /\ Len(population[i].slots) = 2
          /\ Len(population[j].slots) = 2
          /\ PeriodsOf(population[i].slots[1]) = PeriodsOf(population[i].slots[2])
          /\ PeriodsOf(population[j].slots[1]) # PeriodsOf(population[j].slots[2])

-----------------------------------------------------------------------------
(* C26: a run of geneticAlgorithm ends, and ends in one of two ways:        *)
(* converged (the best of the last evaluated generation reaches the         *)
(* threshold, within the budget) or exhausted (the budget is used up and no *)
(* evaluated generation reached the threshold); it never fails.  It         *)
(* evaluates at most generations (100) populations, and every breeding      *)
(* phase adds populationSize minus a fifth (40) offspring.  That it ends is *)
(* stated by a measure: every step of a call lowers a natural number, and   *)
(* a call that has not returned always has a step to take.                  *)

\* geneticAlgorithm has been entered and has returned.
Ended == stats.gaStarted = 1 /\ pc \in {"log", "return", "done"}

Rounds == stats.evaluations \div populationSize

\* The steps a call can still take, at most.
Measure ==
    CASE pc = "start"      -> 2 * generations + 10
      [] pc = "validate"   -> 2 * generations + 9
      [] pc = "initialize" -> 2 * generations + 8
      [] pc = "evaluate"   -> 2 * (generations - generation) + 7
      [] pc = "breed"      -> 2 * (generations - generation) + 6
      [] pc = "format"     -> 5
      [] pc = "log"        -> 4
      [] pc = "return"     -> 3
      [] pc = "catch"      -> 2
      [] pc = "throw"      -> 1
      [] pc = "done"       -> 0

\* The call has a step to take.  The two steps of the loop are stated by
\* their guards: EvaluateGeneration is total on a population that has a first
\* individual, Breed needs one offspring to choose.
CanStep ==
    \/ ENABLED (Fetch \/ Validate \/ InitializePopulation \/ Format
                  \/ LogSuccess \/ Return \/ LogFailure \/ Throw)
    \/ pc = "evaluate" /\ population # <<>>
    \/ pc = "breed" /\ Offspring(population, snapshot) # {}

C26_SearchStaysInBudget ==
    /\ Measure >= 0
    /\ pc # "done" => CanStep
    /\ stats.gaStarted = 1 =>
          /\ pc # "catch" /\ caught = <<>>
          /\ stats.evaluations = Rounds * populationSize
          /\ Rounds <= generations
          /\ generation <= generations
          /\ stats.crossovers = (populationSize - TopFifth) * generation
          /\ Len(population) = populationSize
          /\ Ended =>
                /\ stats.stop \in {"converged", "exhausted"}
                /\ stats.stop = "converged" <=>
                      (population[1].fitness >= conflictThreshold
                         /\ generation < generations)
                /\ stats.stop = "exhausted" <=>
                      (generation = generations /\ stats.maxSeen < conflictThreshold
                         /\ Rounds = generations)

C26_Terminates ==
    /\ []C26_SearchStaysInBudget
    /\ [][Measure' < Measure]_vars

\* A run has used up its budget and returned.
C26_Witness ==
    /\ Ended
    /\ pc = "done"
    /\ stats.stop = "exhausted"
    /\ Rounds = generations
    /\ stats.crossovers = (populationSize - TopFifth) * generations

-----------------------------------------------------------------------------
(* C27: the best fitness of an evaluated generation is at least the best    *)
(* fitness of the generation evaluated before it: the population handed to  *)
(* the evaluation of a later generation starts with the best individual of  *)
(* the previous one, whose fitness is the highest seen so far, and the      *)
(* evaluation gives it that fitness again.                                  *)

EvaluationStep == pc = "evaluate" /\ pc' \in {"breed", "format"}

C27_BestNeverDecreases ==
    [][ EvaluationStep =>
          /\ MaxFitness(population') >= stats.maxSeen
          /\ stats'.maxSeen = MaxFitness(population')
          /\ generation >= 1 =>
                /\ population[1].fitness = stats.maxSeen
                /\ \E i \in DOMAIN population' :
                      /\ population'[i].slots = population[1].slots
                      /\ population'[i].fitness = population[1].fitness
      ]_vars

\* The second generation has been evaluated: its best is the best seen,
\* and one of its individuals is worse.
C27_Witness ==
    /\ pc = "breed"
    /\ generation = 1
    /\ stats.evaluations = 2 * populationSize
    /\ MaxFitness(population) = stats.maxSeen
    /\ \E i \in DOMAIN population : population[i].fitness < stats.maxSeen

-----------------------------------------------------------------------------
(* C28: under the default threshold 0.8, the timetable of a run that        *)
(* converged holds no TEACHER_CONFLICT and no ROOM_CONFLICT, hence no       *)
(* TIME_CHANGE suggestion: an artifact with a TIME_CHANGE suggestion comes  *)
(* from a run that used up its budget.  The conflicts of a converged        *)
(* timetable are of the three other types and cost 0.2 at most together.    *)

HasTimeChange(artifact) ==
    \E k \in DOMAIN artifact.suggestions : artifact.suggestions[k].type = "TIME_CHANGE"

C28_ConvergedHasNoClash ==
    (timetable # <<>> /\ conflictThreshold = DefaultThreshold) =>
        /\ stats.stop = "converged" =>
              /\ ConflictsOfType(timetable[1].conflicts, "TEACHER_CONFLICT") = {}
              /\ ConflictsOfType(timetable[1].conflicts, "ROOM_CONFLICT") = {}
              /\ ~HasTimeChange(timetable[1])
              /\ \A k \in DOMAIN timetable[1].conflicts :
                    timetable[1].conflicts[k].type \in
                        {"EXISTING_CONFLICT", "WORKLOAD_EXCEEDED", "CAPACITY_EXCEEDED"}
              /\ timetable[1].fitness >= BaseFitness - ExistingPenalty
        /\ HasTimeChange(timetable[1]) => stats.stop = "exhausted"
        /\ Resolved => outcome.suggestions = timetable[1].suggestions

\* A run converged on a timetable that overlaps a committed entry: its
\* fitness is the threshold itself.
C28_Witness ==
    /\ Resolved
    /\ conflictThreshold = DefaultThreshold
    /\ stats.stop = "converged"
    /\ outcome.timetable[1].fitness = DefaultThreshold
    /\ ConflictsOfType(outcome.conflicts, "EXISTING_CONFLICT") # {}

-----------------------------------------------------------------------------
(* C29: in a run, every gene of every population is of a course of the      *)
(* snapshot whose teacher is among the teachers of the snapshot, and is the *)
(* gene of that teacher; no offspring mutate can return from such a         *)
(* population comes with a fault, and the run never fails once              *)
(* geneticAlgorithm is entered.                                             *)

Resolvable(gene) ==
    \E c \in DOMAIN snapshot.courses :
        /\ snapshot.courses[c].id = gene.courseId
        /\ snapshot.courses[c].teacherId = gene.teacherId
        /\ \E t \in DOMAIN snapshot.teachers :
              snapshot.teachers[t].id = snapshot.courses[c].teacherId

C29_GenesResolvable ==
    /\ \A i \in DOMAIN population :
          \A k \in DOMAIN population[i].slots : Resolvable(population[i].slots[k])
    /\ pc = "breed" =>
          \A o \in Offspring(population, snapshot) :
              /\ ~o.fault
              /\ \A k \in DOMAIN o.individual.slots :
                    Resolvable(o.individual.slots[k])
    /\ caught # <<>> => caught[1].from # "mutate"
    /\ stats.gaStarted = 1 => caught = <<>>

\* A second generation has been bred on a snapshot that lists a course
\* whose teacher is not among the teachers.
C29_Witness ==
    /\ pc = "evaluate"
    /\ generation = 1
    /\ stats.mutations > 0
    /\ \E c \in DOMAIN snapshot.courses :
          \A t \in DOMAIN snapshot.teachers :
              snapshot.teachers[t].id # snapshot.courses[c].teacherId
    /\ \E i \in DOMAIN population :
          /\ population[i].fitness = 0
          /\ population[i].slots # population[1].slots

====
